---- MODULE Spec2Model ----
(***************************************************************************)
(* Model of the buildkitd autoscaling TCP proxy (main.go, kubernetes.go).  *)
(*                                                                         *)
(* Every accepted connection runs handleConnection in its own goroutine;   *)
(* every time.AfterFunc timer runs its callback in its own goroutine once  *)
(* the runtime has fired it.  A step of the model is one shared-memory     *)
(* operation of one goroutine (an atomic Add/Load, a mutex acquisition, a  *)
(* critical section up to its Unlock, one Kubernetes API call, one dial).  *)
(* The StatefulSet is the Kubernetes object the API calls read and patch;  *)
(* its controller moves status.replicas and status.readyReplicas towards   *)
(* spec.replicas on its own.                                               *)
(***************************************************************************)
EXTENDS Integers, FiniteSets, Sequences, TLC

\* Bounds of the model.
MaxAccepts == 2        \* connections the listener accepts in one run
MaxInFlight == 2       \* handleConnection goroutines running at the same time
MaxReplicas == 1       \* largest replica count the StatefulSet is given
MaxCount == 2          \* largest replica count in a polled snapshot, largest expectedReadyReplicas
WaitIntervals == 2     \* the timeout of a readiness wait, in poll intervals
MaxOverrun == 1        \* intervals a call is followed beyond its timeout
MaxBytes == 2          \* bytes a party writes to its socket in one session

Handlers == 1..MaxAccepts   \* handler h serves the h-th accepted connection
Timers == 1..MaxAccepts     \* every handler arms at most one timer
Replicas == 0..MaxReplicas
NoTimer == 0                \* scaleDownTimer == nil

VARIABLES
    mainpc,                 \* position of main(): reconcile, reconcileWarn, reconcileScale, listen, listening,
                            \* listenFailed (os.Exit(1)), returned (main returned)
    sts,                    \* the StatefulSet: spec.replicas, status.replicas, status.readyReplicas
    activeConnectionCount,  \* atomic.Int64
    scaleDownTimer,         \* the timer slot: a timer handle or NoTimer
    scaleDownTimerMutex,    \* TRUE while some goroutine holds the mutex
    accepted,               \* number of connections accepted so far
    conn,                   \* per handler: position and locals of handleConnection
    timer,                  \* per timer: position of the runtime timer and of its callback
    opens,                  \* number of handlers that executed activeConnectionCount.Add(1)
    closes,                 \* number of handlers that executed activeConnectionCount.Add(-1)
    idleScaleDowns,         \* ScaleStatefulSet(0) calls of timer callbacks since the count last dropped to 0
    shutpc,                 \* position of the shutdown goroutine: running, waiting, exitDone, exitTimeout
    w,                      \* a call of WaitForStatefulSetReady taken on its own
    relay,                  \* the relay stage of one session taken on its own
    api,                    \* the StatefulSet in the API server and one adapter call on it
    config                  \* the configuration loading of main() taken on its own

vars == <<mainpc, sts, activeConnectionCount, scaleDownTimer, scaleDownTimerMutex,
          accepted, conn, timer, opens, closes, idleScaleDowns, shutpc, w,
          relay, api, config>>

\* status.replicas and status.readyReplicas are taken for each other.
StatefulSetStatusSwapped(s) ==
    [DesiredReplicas |-> s.desired, CurrentReplicas |-> s.ready, ReadyReplicas |-> s.current]

\* StatefulSetStatus as GetStatefulSetStatus builds it from the object.
StatefulSetStatus(s) ==
    [DesiredReplicas |-> s.desired, CurrentReplicas |-> s.current, ReadyReplicas |-> s.ready]

\* A read-modify-write that is not atomic: a decrement racing with another
\* goroutine's update is lost.
LostUpdateAdd(v, delta) == IF delta < 0 /\ v >= 2 THEN v ELSE v + delta

\* atomic.Int64.Add: the new value, computed in one indivisible step.
AtomicAdd(v, delta) == v + delta

\* The second of two connections also counts as first.
IsFirstUpToTwo(currentActive) == currentActive <= 2

\* Every connection that finds others active still counts as first.
IsFirstAlways(currentActive) == currentActive >= 1

\* isFirstConnection := currentActive == 1
IsFirst(currentActive) == currentActive = 1

\* Only the number of ready replicas is compared.
PollConditionReadyOnly(status, expectedReadyReplicas) ==
    status.ReadyReplicas >= expectedReadyReplicas

\* The condition WaitForStatefulSetReady's poll function returns true on.
PollCondition(status, expectedReadyReplicas) ==
    /\ status.ReadyReplicas >= expectedReadyReplicas
    /\ status.CurrentReplicas = status.DesiredReplicas
    /\ status.ReadyReplicas = status.DesiredReplicas

\* A pending timer: armed by time.AfterFunc, not stopped, and its callback has
\* not run yet (it has not expired, or it has expired and the goroutine of its
\* callback has not executed its first statement).
Pending(t) == timer[t].st \in {"armed", "fired"}

\* A timer whose callback can still read the counter.
Live(t) == timer[t].st \in {"armed", "fired", "locked", "check"}

\* A handler's locals: isFirstConnection, status.ReadyReplicas as it read it (-1
\* before the query), and what it has done so far: ScaleStatefulSet(1) calls
\* issued, the result of the readiness wait, whether it has dialed the backend,
\* clientConn.Close() calls, Add(-1) calls, and whether its Add(-1) returned 0.
InitConn ==
    [pc |-> "idle", isFirstConnection |-> FALSE, ready |-> -1,
     scaleUps |-> 0, waitRes |-> "none", dialed |-> FALSE,
     clientCloses |-> 0, decs |-> 0, last |-> FALSE]

\* A handler whose goroutine has returned; its locals are gone.
DoneConn == [InitConn EXCEPT !.pc = "done"]

\* A handler whose goroutine has returned from state c: what its deferred close
\* did stays on record.
Finished(c) ==
    [DoneConn EXCEPT !.clientCloses = c.clientCloses, !.decs = c.decs, !.last = c.last]

\* A timer: its position, and whether a connection has opened since it was armed
\* and before its callback read the counter.
InitTimer == [st |-> "unused", opened |-> FALSE]

\* A timer that was stopped, or whose callback has returned.
DeadTimer == [st |-> "dead", opened |-> FALSE]

\* time.Timer.Stop: a timer that has not fired is stopped; one that has already
\* fired (its callback goroutine exists) is unaffected.
TimerStop(tm, t) ==
    IF t # NoTimer /\ tm[t].st = "armed" THEN [tm EXCEPT ![t] = DeadTimer] ELSE tm

\* The process runs: os.Exit has not been called and main has not returned.
Alive ==
    /\ mainpc \notin {"listenFailed", "returned"}
    /\ shutpc \notin {"exitDone", "exitTimeout"}

\* No WaitForStatefulSetReady call is looked at on its own.
NoWait == [pc |-> "none"]

\* No relay stage, no adapter call, no configuration loading is looked at on
\* its own.
NoRelay == [pc |-> "none"]

NoApi == [pc |-> "none"]

NoConfig == [pc |-> "none"]

\* The state of the proxy when main starts.
InitProxy ==
    /\ mainpc = "reconcile"
    /\ activeConnectionCount = 0
    /\ scaleDownTimer = NoTimer
    /\ scaleDownTimerMutex = FALSE
    /\ accepted = 0
    /\ conn = [h \in Handlers |-> InitConn]
    /\ timer = [t \in Timers |-> InitTimer]
    /\ opens = 0
    /\ closes = 0
    /\ idleScaleDowns = 0
    /\ shutpc = "running"

\* The proxy starts against a StatefulSet in any state the cluster can show.
Init ==
    /\ InitProxy
    /\ sts \in {s \in [desired : Replicas, current : Replicas, ready : Replicas] :
                    s.ready <= s.current}
    /\ w = NoWait
    /\ relay = NoRelay
    /\ api = NoApi
    /\ config = NoConfig

----------------------------------------------------------------------------
\* main(): startup reconciliation, then the accept loop.

\* The initial check looks at status.replicas instead of status.readyReplicas.
ReconcileOnCurrent ==
    /\ Alive
    /\ mainpc = "reconcile"
    /\ \E err \in BOOLEAN :
         mainpc' = IF ~err /\ StatefulSetStatus(sts).CurrentReplicas > 0
                        /\ activeConnectionCount = 0
                   THEN "reconcileScale"
                   ELSE IF err THEN "reconcileWarn" ELSE "listen"
    /\ UNCHANGED <<shutpc, w, sts, activeConnectionCount, scaleDownTimer, scaleDownTimerMutex,
                   accepted, conn, timer, opens, closes, idleScaleDowns,
                   relay, api, config>>

\* GetStatefulSetStatus at startup: ready > 0 with no active connection goes to
\* the scale-down call, an error to the warning, ready == 0 straight to
\* net.Listen.
Reconcile ==
    /\ Alive
    /\ mainpc = "reconcile"
    /\ \E err \in BOOLEAN :
         mainpc' = IF ~err /\ StatefulSetStatus(sts).ReadyReplicas > 0
                        /\ activeConnectionCount = 0
                   THEN "reconcileScale"
                   ELSE IF err THEN "reconcileWarn" ELSE "listen"
    /\ UNCHANGED <<shutpc, w, sts, activeConnectionCount, scaleDownTimer, scaleDownTimerMutex,
                   accepted, conn, timer, opens, closes, idleScaleDowns,
                   relay, api, config>>

\* The status query failed: "Could not get initial status ... Assuming 0
\* replicas" is logged and main goes on to net.Listen.
ReconcileWarn ==
    /\ Alive
    /\ mainpc = "reconcileWarn"
    /\ mainpc' = "listen"
    /\ UNCHANGED <<shutpc, w, sts, activeConnectionCount, scaleDownTimer, scaleDownTimerMutex,
                   accepted, conn, timer, opens, closes, idleScaleDowns,
                   relay, api, config>>

\* An error of the scale-down call at startup is fatal.
ReconcileScaleFatal ==
    /\ Alive
    /\ mainpc = "reconcileScale"
    /\ \E err \in BOOLEAN :
         /\ sts' = IF err THEN sts ELSE [sts EXCEPT !.desired = 0]
         /\ mainpc' = IF err THEN "listenFailed" ELSE "listen"
    /\ UNCHANGED <<shutpc, w, activeConnectionCount, scaleDownTimer, scaleDownTimerMutex,
                   accepted, conn, timer, opens, closes, idleScaleDowns,
                   relay, api, config>>

\* ScaleStatefulSet(0) at startup; an error is logged only.
ReconcileScale ==
    /\ Alive
    /\ mainpc = "reconcileScale"
    /\ \E err \in BOOLEAN : sts' = IF err THEN sts ELSE [sts EXCEPT !.desired = 0]
    /\ mainpc' = "listen"
    /\ UNCHANGED <<shutpc, w, activeConnectionCount, scaleDownTimer, scaleDownTimerMutex,
                   accepted, conn, timer, opens, closes, idleScaleDowns,
                   relay, api, config>>

\* net.Listen: a failure is fatal (os.Exit(1)); on success signal.Notify is
\* called, the shutdown goroutine is started and the accept loop begins.
Listen ==
    /\ Alive
    /\ mainpc = "listen"
    /\ \E err \in BOOLEAN : mainpc' = IF err THEN "listenFailed" ELSE "listening"
    /\ UNCHANGED <<sts, activeConnectionCount, scaleDownTimer, scaleDownTimerMutex,
                   accepted, conn, timer, opens, closes, idleScaleDowns, shutpc, w,
                   relay, api, config>>

\* The handlers whose goroutine is running.
InFlight == {h \in Handlers : conn[h].pc \notin {"idle", "done"}}

\* listener.Accept succeeded: go handleConnection(clientConn).
Accept(h) ==
    /\ Alive
    /\ mainpc = "listening"
    /\ shutpc = "running"
    /\ accepted < MaxAccepts
    /\ Cardinality(InFlight) < MaxInFlight
    /\ h = accepted + 1
    /\ conn[h].pc = "idle"
    /\ accepted' = accepted + 1
    /\ conn' = [conn EXCEPT ![h].pc = "inc"]
    /\ UNCHANGED <<shutpc, w, mainpc, sts, activeConnectionCount, scaleDownTimer, scaleDownTimerMutex,
                   timer, opens, closes, idleScaleDowns,
                   relay, api, config>>

\* The process ends: its goroutines, timers and memory are gone.
ProcessGone ==
    /\ activeConnectionCount' = 0
    /\ scaleDownTimer' = NoTimer
    /\ scaleDownTimerMutex' = FALSE
    /\ accepted' = 0
    /\ conn' = [h \in Handlers |-> InitConn]
    /\ timer' = [t \in Timers |-> InitTimer]
    /\ opens' = 0
    /\ closes' = 0
    /\ idleScaleDowns' = 0

\* Done() is called when the body of the handler returns, before its deferred
\* close has run.
shutdownWgDoneFirst ==
    Cardinality({h \in Handlers :
                    conn[h].pc \notin {"idle", "done", "close", "armLock", "arm"}})

\* shutdownWg: Add(1) for every accepted connection, Done() as the last deferred
\* call of its handler.
shutdownWg == Cardinality(InFlight)

\* The signal is received but the goroutine only takes note of it.
SignalIgnored ==
    /\ Alive
    /\ mainpc = "listening"
    /\ shutpc = "running"
    /\ shutpc' = "signalled"
    /\ UNCHANGED <<mainpc, sts, activeConnectionCount, scaleDownTimer, scaleDownTimerMutex,
                   accepted, conn, timer, opens, closes, idleScaleDowns, w,
                   relay, api, config>>

\* SIGINT or SIGTERM arrives once signal.Notify is in place: the shutdown
\* goroutine closes the listener, starts the 25 s context and the goroutine
\* that waits on shutdownWg, and blocks in its select.
Signal ==
    /\ Alive
    /\ mainpc = "listening"
    /\ shutpc = "running"
    /\ shutpc' = "waiting"
    /\ UNCHANGED <<mainpc, sts, activeConnectionCount, scaleDownTimer, scaleDownTimerMutex,
                   accepted, conn, timer, opens, closes, idleScaleDowns, w,
                   relay, api, config>>

\* shutdownWg.Wait() returned, done is closed, the select takes <-done: os.Exit(0).
ShutdownDone ==
    /\ Alive
    /\ shutpc = "waiting"
    /\ shutdownWg = 0
    /\ shutpc' = "exitDone"
    /\ ProcessGone
    /\ UNCHANGED <<mainpc, sts, w,
                   relay, api, config>>

\* The 25 s of shutdownCtx elapsed, the select takes <-shutdownCtx.Done(): os.Exit(0).
ShutdownTimeout ==
    /\ Alive
    /\ shutpc = "waiting"
    /\ shutpc' = "exitTimeout"
    /\ ProcessGone
    /\ UNCHANGED <<mainpc, sts, w,
                   relay, api, config>>

\* listener.Accept fails on the closed listener with "use of closed network
\* connection": the accept loop breaks and main returns, which ends the process.
AcceptClosed ==
    /\ Alive
    /\ mainpc = "listening"
    /\ shutpc = "waiting"
    /\ mainpc' = "returned"
    /\ ProcessGone
    /\ UNCHANGED <<sts, shutpc, w,
                   relay, api, config>>

----------------------------------------------------------------------------
\* handleConnection

\* Every connection, first or not, goes through the cancel section.
IncrementAlwaysCancels(h) ==
    /\ Alive
    /\ conn[h].pc = "inc"
    /\ LET currentActive == AtomicAdd(activeConnectionCount, 1)
       IN /\ activeConnectionCount' = currentActive
          /\ conn' = [conn EXCEPT ![h].isFirstConnection = IsFirst(currentActive),
                                  ![h].pc = "cancelLock"]
    /\ opens' = opens + 1
    /\ timer' = [t \in Timers |-> IF Live(t) THEN [timer[t] EXCEPT !.opened = TRUE]
                                             ELSE timer[t]]
    /\ UNCHANGED <<shutpc, w, mainpc, sts, scaleDownTimer, scaleDownTimerMutex, accepted,
                   closes, idleScaleDowns,
                   relay, api, config>>

\* currentActive := activeConnectionCount.Add(1); isFirstConnection := currentActive == 1
Increment(h) ==
    /\ Alive
    /\ conn[h].pc = "inc"
    /\ LET currentActive == AtomicAdd(activeConnectionCount, 1)
           first == IsFirst(currentActive)
       IN /\ activeConnectionCount' = currentActive
          /\ conn' = [conn EXCEPT ![h].isFirstConnection = first,
                                  ![h].pc = IF first THEN "cancelLock" ELSE "status"]
    /\ opens' = opens + 1
    /\ timer' = [t \in Timers |-> IF Live(t) THEN [timer[t] EXCEPT !.opened = TRUE]
                                             ELSE timer[t]]
    /\ UNCHANGED <<shutpc, w, mainpc, sts, scaleDownTimer, scaleDownTimerMutex, accepted,
                   closes, idleScaleDowns,
                   relay, api, config>>

\* if isFirstConnection { scaleDownTimerMutex.Lock()
CancelLock(h) ==
    /\ Alive
    /\ conn[h].pc = "cancelLock"
    /\ ~scaleDownTimerMutex
    /\ scaleDownTimerMutex' = TRUE
    /\ conn' = [conn EXCEPT ![h].pc = "cancel"]
    /\ UNCHANGED <<shutpc, w, mainpc, sts, activeConnectionCount, scaleDownTimer, accepted,
                   timer, opens, closes, idleScaleDowns,
                   relay, api, config>>

\* if scaleDownTimer != nil { Stop(); scaleDownTimer = nil }; Unlock()
CancelTimer(h) ==
    /\ Alive
    /\ conn[h].pc = "cancel"
    /\ timer' = TimerStop(timer, scaleDownTimer)
    /\ scaleDownTimer' = NoTimer
    /\ scaleDownTimerMutex' = FALSE
    /\ conn' = [conn EXCEPT ![h].pc = "status"]
    /\ UNCHANGED <<shutpc, w, mainpc, sts, activeConnectionCount, accepted, opens, closes,
                   idleScaleDowns,
                   relay, api, config>>

\* The handler returns on the error without running its deferred close.
StatusErrorLeak(h) ==
    /\ Alive
    /\ conn[h].pc = "status"
    /\ conn' = [conn EXCEPT ![h] = Finished(conn[h])]
    /\ UNCHANGED <<shutpc, w, mainpc, sts, activeConnectionCount, scaleDownTimer, scaleDownTimerMutex,
                   accepted, timer, opens, closes, idleScaleDowns,
                   relay, api, config>>

\* An error of the status query is taken for "no replica ready", as at startup.
StatusErrorAssumesZero(h) ==
    /\ Alive
    /\ conn[h].pc = "status"
    /\ conn' = [conn EXCEPT ![h].pc = IF conn[h].isFirstConnection THEN "scaleUp"
                                                                     ELSE "close"]
    /\ UNCHANGED <<shutpc, w, mainpc, sts, activeConnectionCount, scaleDownTimer, scaleDownTimerMutex,
                   accepted, timer, opens, closes, idleScaleDowns,
                   relay, api, config>>

\* GetStatefulSetStatus returned an error: return (the deferred close runs).
StatusError(h) ==
    /\ Alive
    /\ conn[h].pc = "status"
    /\ conn' = [conn EXCEPT ![h].pc = "close"]
    /\ UNCHANGED <<shutpc, w, mainpc, sts, activeConnectionCount, scaleDownTimer, scaleDownTimerMutex,
                   accepted, timer, opens, closes, idleScaleDowns,
                   relay, api, config>>

\* The rejection branch is missing: a non-first connection goes on to dial.
AfterStatusNoReject(first, ready) ==
    IF first /\ ready = 0 THEN "scaleUp" ELSE "dial"

\* The first connection scales up whatever the status says.
AfterStatusFirstScales(first, ready) ==
    IF first THEN "scaleUp"
    ELSE IF ready = 0 THEN "close"
    ELSE "dial"

\* Where handleConnection goes after a successful status query.
AfterStatus(first, ready) ==
    IF first /\ ready = 0 THEN "scaleUp"
    ELSE IF ready = 0 THEN "close"
    ELSE "dial"

\* GetStatefulSetStatus returned a snapshot.
StatusOk(h) ==
    /\ Alive
    /\ conn[h].pc = "status"
    /\ LET status == StatefulSetStatus(sts)
       IN conn' = [conn EXCEPT ![h].ready = status.ReadyReplicas,
                               ![h].pc = AfterStatus(conn[h].isFirstConnection,
                                                     status.ReadyReplicas)]
    /\ UNCHANGED <<shutpc, w, mainpc, sts, activeConnectionCount, scaleDownTimer, scaleDownTimerMutex,
                   accepted, timer, opens, closes, idleScaleDowns,
                   relay, api, config>>

\* The handler asks for one replica per active connection.
ScaleUpPerConnection(h) ==
    /\ Alive
    /\ conn[h].pc = "scaleUp"
    /\ \E err \in BOOLEAN :
         /\ sts' = IF err THEN sts ELSE [sts EXCEPT !.desired = activeConnectionCount]
         /\ conn' = [conn EXCEPT ![h].scaleUps = @ + 1,
                                 ![h].pc = IF err THEN "close" ELSE "wait"]
    /\ UNCHANGED <<shutpc, w, mainpc, activeConnectionCount, scaleDownTimer, scaleDownTimerMutex,
                   accepted, timer, opens, closes, idleScaleDowns,
                   relay, api, config>>

\* The readiness wait is skipped: the handler dials right after the patch.
ScaleUpNoWait(h) ==
    /\ Alive
    /\ conn[h].pc = "scaleUp"
    /\ \E err \in BOOLEAN :
         /\ sts' = IF err THEN sts ELSE [sts EXCEPT !.desired = 1]
         /\ conn' = [conn EXCEPT ![h].scaleUps = @ + 1,
                                 ![h].pc = IF err THEN "close" ELSE "dial"]
    /\ UNCHANGED <<shutpc, w, mainpc, activeConnectionCount, scaleDownTimer, scaleDownTimerMutex,
                   accepted, timer, opens, closes, idleScaleDowns,
                   relay, api, config>>

\* ScaleStatefulSet(1): on an error return, otherwise go on to the readiness wait.
ScaleUp(h) ==
    /\ Alive
    /\ conn[h].pc = "scaleUp"
    /\ \E err \in BOOLEAN :
         /\ sts' = IF err THEN sts ELSE [sts EXCEPT !.desired = 1]
         /\ conn' = [conn EXCEPT ![h].scaleUps = @ + 1,
                                 ![h].pc = IF err THEN "close" ELSE "wait"]
    /\ UNCHANGED <<shutpc, w, mainpc, activeConnectionCount, scaleDownTimer, scaleDownTimerMutex,
                   accepted, timer, opens, closes, idleScaleDowns,
                   relay, api, config>>

\* WaitForStatefulSetReady(1): a poll whose snapshot satisfies the condition.
\* (A poll that fails or does not satisfy it changes nothing and polls again.)
WaitReady(h) ==
    /\ Alive
    /\ conn[h].pc = "wait"
    /\ PollCondition(StatefulSetStatus(sts), 1)
    /\ conn' = [conn EXCEPT ![h].waitRes = "ok", ![h].pc = "dial"]
    /\ UNCHANGED <<shutpc, w, mainpc, sts, activeConnectionCount, scaleDownTimer, scaleDownTimerMutex,
                   accepted, timer, opens, closes, idleScaleDowns,
                   relay, api, config>>

\* The handler undoes its scale-up when the readiness wait fails.
WaitTimeoutScalesDown(h) ==
    /\ Alive
    /\ conn[h].pc = "wait"
    /\ sts' = [sts EXCEPT !.desired = 0]
    /\ conn' = [conn EXCEPT ![h].waitRes = "timeout", ![h].pc = "close"]
    /\ UNCHANGED <<shutpc, w, mainpc, activeConnectionCount, scaleDownTimer, scaleDownTimerMutex,
                   accepted, timer, opens, closes, idleScaleDowns,
                   relay, api, config>>

\* The error of the readiness wait is ignored: the handler goes on to dial.
WaitTimeoutIgnored(h) ==
    /\ Alive
    /\ conn[h].pc = "wait"
    /\ conn' = [conn EXCEPT ![h].waitRes = "timeout", ![h].pc = "dial"]
    /\ UNCHANGED <<shutpc, w, mainpc, sts, activeConnectionCount, scaleDownTimer, scaleDownTimerMutex,
                   accepted, timer, opens, closes, idleScaleDowns,
                   relay, api, config>>

\* WaitForStatefulSetReady(1): waitForReadyTimeout elapsed.
WaitTimeout(h) ==
    /\ Alive
    /\ conn[h].pc = "wait"
    /\ conn' = [conn EXCEPT ![h].waitRes = "timeout", ![h].pc = "close"]
    /\ UNCHANGED <<shutpc, w, mainpc, sts, activeConnectionCount, scaleDownTimer, scaleDownTimerMutex,
                   accepted, timer, opens, closes, idleScaleDowns,
                   relay, api, config>>

\* net.DialTimeout to the backend: on an error return, otherwise relay.
Dial(h) ==
    /\ Alive
    /\ conn[h].pc = "dial"
    /\ \E err \in BOOLEAN :
         conn' = [conn EXCEPT ![h].dialed = TRUE,
                              ![h].pc = IF err THEN "close" ELSE "relay"]
    /\ UNCHANGED <<shutpc, w, mainpc, sts, activeConnectionCount, scaleDownTimer, scaleDownTimerMutex,
                   accepted, timer, opens, closes, idleScaleDowns,
                   relay, api, config>>

\* Both copyData goroutines finished: copyWg.Wait returns, targetConn is closed.
Relay(h) ==
    /\ Alive
    /\ conn[h].pc = "relay"
    /\ conn' = [conn EXCEPT ![h].pc = "close"]
    /\ UNCHANGED <<shutpc, w, mainpc, sts, activeConnectionCount, scaleDownTimer, scaleDownTimerMutex,
                   accepted, timer, opens, closes, idleScaleDowns,
                   relay, api, config>>

\* The deferred function: clientConn.Close(); newActiveCount := Add(-1).
Decrement(h) ==
    /\ Alive
    /\ conn[h].pc = "close"
    /\ LET newActiveCount == AtomicAdd(activeConnectionCount, -1)
              closed == [conn[h] EXCEPT !.clientCloses = @ + 1, !.decs = @ + 1,
                                        !.last = (newActiveCount = 0)]
       IN /\ activeConnectionCount' = newActiveCount
          /\ conn' = [conn EXCEPT ![h] = IF newActiveCount = 0
                                         THEN [closed EXCEPT !.pc = "armLock"]
                                         ELSE Finished(closed)]
          /\ idleScaleDowns' = IF newActiveCount = 0 THEN 0 ELSE idleScaleDowns
    /\ closes' = closes + 1
    /\ UNCHANGED <<shutpc, w, mainpc, sts, scaleDownTimer, scaleDownTimerMutex, accepted, timer, opens,
                   relay, api, config>>

\* if newActiveCount == 0 { scaleDownTimerMutex.Lock()
ArmLock(h) ==
    /\ Alive
    /\ conn[h].pc = "armLock"
    /\ ~scaleDownTimerMutex
    /\ scaleDownTimerMutex' = TRUE
    /\ conn' = [conn EXCEPT ![h].pc = "arm"]
    /\ UNCHANGED <<shutpc, w, mainpc, sts, activeConnectionCount, scaleDownTimer, accepted,
                   timer, opens, closes, idleScaleDowns,
                   relay, api, config>>

\* The existing timer is stopped but no new one is armed.
ArmTimerStopOnly(h) ==
    /\ Alive
    /\ conn[h].pc = "arm"
    /\ timer' = TimerStop(timer, scaleDownTimer)
    /\ scaleDownTimer' = NoTimer
    /\ scaleDownTimerMutex' = FALSE
    /\ conn' = [conn EXCEPT ![h] = Finished(conn[h])]
    /\ UNCHANGED <<shutpc, w, mainpc, sts, activeConnectionCount, accepted, opens, closes,
                   idleScaleDowns,
                   relay, api, config>>

\* if scaleDownTimer != nil { Stop() }; scaleDownTimer = time.AfterFunc(...); Unlock()
\* Handler h arms the timer with handle h.
ArmTimer(h) ==
    /\ Alive
    /\ conn[h].pc = "arm"
    /\ timer' = [TimerStop(timer, scaleDownTimer) EXCEPT ![h].st = "armed"]
    /\ scaleDownTimer' = h
    /\ scaleDownTimerMutex' = FALSE
    /\ conn' = [conn EXCEPT ![h] = Finished(conn[h])]
    /\ UNCHANGED <<shutpc, w, mainpc, sts, activeConnectionCount, accepted, opens, closes,
                   idleScaleDowns,
                   relay, api, config>>

----------------------------------------------------------------------------
\* The time.AfterFunc callback

\* scaleDownIdleTimeout elapsed: the runtime starts the callback in its own goroutine.
TimerFire(t) ==
    /\ Alive
    /\ timer[t].st = "armed"
    /\ timer' = [timer EXCEPT ![t].st = "fired"]
    /\ UNCHANGED <<shutpc, w, mainpc, sts, activeConnectionCount, scaleDownTimer, scaleDownTimerMutex,
                   accepted, conn, opens, closes, idleScaleDowns,
                   relay, api, config>>

\* scaleDownTimerMutex.Lock()
TimerLock(t) ==
    /\ Alive
    /\ timer[t].st = "fired"
    /\ ~scaleDownTimerMutex
    /\ scaleDownTimerMutex' = TRUE
    /\ timer' = [timer EXCEPT ![t].st = "locked"]
    /\ UNCHANGED <<shutpc, w, mainpc, sts, activeConnectionCount, scaleDownTimer, accepted, conn,
                   opens, closes, idleScaleDowns,
                   relay, api, config>>

\* The callback keeps the mutex for its check and its scale-down call.
TimerClearKeepsLock(t) ==
    /\ Alive
    /\ timer[t].st = "locked"
    /\ scaleDownTimer' = NoTimer
    /\ timer' = [timer EXCEPT ![t].st = "check"]
    /\ UNCHANGED <<shutpc, w, mainpc, sts, activeConnectionCount, accepted, conn, opens, closes,
                   idleScaleDowns, scaleDownTimerMutex,
                   relay, api, config>>

\* scaleDownTimer = nil; scaleDownTimerMutex.Unlock()
TimerClear(t) ==
    /\ Alive
    /\ timer[t].st = "locked"
    /\ scaleDownTimer' = NoTimer
    /\ scaleDownTimerMutex' = FALSE
    /\ timer' = [timer EXCEPT ![t].st = "check"]
    /\ UNCHANGED <<shutpc, w, mainpc, sts, activeConnectionCount, accepted, conn, opens, closes,
                   idleScaleDowns,
                   relay, api, config>>

\* if activeConnectionCount.Load() == 0 { ... } else { abort }
TimerCheck(t) ==
    /\ Alive
    /\ timer[t].st = "check"
    /\ timer' = [timer EXCEPT ![t] = IF activeConnectionCount = 0
                                       THEN [st |-> "scale", opened |-> FALSE]
                                       ELSE DeadTimer]
    /\ UNCHANGED <<shutpc, w, mainpc, sts, activeConnectionCount, scaleDownTimer, scaleDownTimerMutex,
                   accepted, conn, opens, closes, idleScaleDowns,
                   relay, api, config>>

\* ScaleStatefulSet(0); an error is logged only.
TimerScaleDown(t) ==
    /\ Alive
    /\ timer[t].st = "scale"
    /\ \E err \in BOOLEAN : sts' = IF err THEN sts ELSE [sts EXCEPT !.desired = 0]
    /\ timer' = [timer EXCEPT ![t] = DeadTimer]
    /\ idleScaleDowns' = IF activeConnectionCount = 0 THEN idleScaleDowns + 1
                                                      ELSE idleScaleDowns
    /\ UNCHANGED <<shutpc, w, mainpc, activeConnectionCount, scaleDownTimer, scaleDownTimerMutex,
                   accepted, conn, opens, closes,
                   relay, api, config>>

----------------------------------------------------------------------------
\* The StatefulSet controller of the cluster

\* A pod is created while status.replicas < spec.replicas.
PodCreate ==
    /\ sts.current < sts.desired
    /\ sts' = [sts EXCEPT !.current = @ + 1]
    /\ UNCHANGED <<shutpc, w, mainpc, activeConnectionCount, scaleDownTimer, scaleDownTimerMutex,
                   accepted, conn, timer, opens, closes, idleScaleDowns,
                   relay, api, config>>

\* A created pod passes its readiness probe.
PodReady ==
    /\ sts.ready < sts.current
    /\ sts' = [sts EXCEPT !.ready = @ + 1]
    /\ UNCHANGED <<shutpc, w, mainpc, activeConnectionCount, scaleDownTimer, scaleDownTimerMutex,
                   accepted, conn, timer, opens, closes, idleScaleDowns,
                   relay, api, config>>

\* A pod is deleted while status.replicas > spec.replicas.
PodDelete ==
    /\ sts.current > sts.desired
    /\ sts' = [sts EXCEPT !.current = @ - 1,
                          !.ready = IF sts.ready > sts.current - 1 THEN sts.current - 1
                                                                   ELSE sts.ready]
    /\ UNCHANGED <<shutpc, w, mainpc, activeConnectionCount, scaleDownTimer, scaleDownTimerMutex,
                   accepted, conn, timer, opens, closes, idleScaleDowns,
                   relay, api, config>>

----------------------------------------------------------------------------
Next ==
    \/ Reconcile
    \/ ReconcileWarn
    \/ ReconcileScale
    \/ Listen
    \/ Signal
    \/ ShutdownDone
    \/ ShutdownTimeout
    \/ AcceptClosed
    \/ \E h \in Handlers : Accept(h)
    \/ \E h \in Handlers : Increment(h)
    \/ \E h \in Handlers : CancelLock(h)
    \/ \E h \in Handlers : CancelTimer(h)
    \/ \E h \in Handlers : StatusError(h)
    \/ \E h \in Handlers : StatusOk(h)
    \/ \E h \in Handlers : ScaleUp(h)
    \/ \E h \in Handlers : WaitReady(h)
    \/ \E h \in Handlers : WaitTimeout(h)
    \/ \E h \in Handlers : Dial(h)
    \/ \E h \in Handlers : Relay(h)
    \/ \E h \in Handlers : Decrement(h)
    \/ \E h \in Handlers : ArmLock(h)
    \/ \E h \in Handlers : ArmTimer(h)
    \/ \E t \in Timers : TimerFire(t)
    \/ \E t \in Timers : TimerLock(t)
    \/ \E t \in Timers : TimerClear(t)
    \/ \E t \in Timers : TimerCheck(t)
    \/ \E t \in Timers : TimerScaleDown(t)
    \/ PodCreate
    \/ PodReady
    \/ PodDelete

Spec == Init /\ [][Next]_vars

\* A step of a goroutine that waits for nothing outside the process, except for
\* the mutex: the counter updates and the timer-slot sections of a handler.
HandlerStep(h) ==
    \/ Increment(h) \/ CancelLock(h) \/ CancelTimer(h)
    \/ Decrement(h) \/ ArmLock(h) \/ ArmTimer(h)

\* The expiry of an armed timer and the steps of its callback.
TimerStep(t) ==
    \/ TimerFire(t) \/ TimerLock(t) \/ TimerClear(t) \/ TimerCheck(t) \/ TimerScaleDown(t)

\* What the Go runtime guarantees: while some goroutine can take such a step,
\* one of them is taken (an armed timer expires, a runnable goroutine runs), and
\* the 25 s shutdown context expires.  Nothing is assumed of the clients, the
\* backend or the cluster: a relay may last forever.
Fairness ==
    /\ WF_vars(\E h \in Handlers : HandlerStep(h) \/ TimerStep(h))
    /\ WF_vars(ShutdownTimeout)

FairSpec == Spec /\ Fairness

----------------------------------------------------------------------------
\* WaitForStatefulSetReady, one call taken on its own: wait.PollImmediate runs
\* the poll function at once and then after every interval until the timeout;
\* the poll function runs GetStatefulSetStatus, which has no deadline of its own
\* (context.TODO()), and PollImmediate cannot return while it runs.

\* What GetStatefulSetStatus can return: a not-found error, another error, or a
\* snapshot of the replica counts.
Responses ==
    {[err |-> e, DesiredReplicas |-> 0, CurrentReplicas |-> 0, ReadyReplicas |-> 0] :
        e \in {"notFound", "other"}}
    \cup [err : {"none"}, DesiredReplicas : 0..MaxCount, CurrentReplicas : 0..MaxCount,
          ReadyReplicas : 0..MaxCount]

\* No response received yet.
NoResponse == [err |-> "unset", DesiredReplicas |-> 0, CurrentReplicas |-> 0, ReadyReplicas |-> 0]

\* A call WaitForStatefulSetReady(..., expectedReadyReplicas, timeout) as it
\* starts: about to run the first poll, no interval elapsed.
WaitCall(expectedReadyReplicas) ==
    [pc |-> "poll", expected |-> expectedReadyReplicas, elapsed |-> 0, last |-> NoResponse,
     result |-> "none", notFound |-> FALSE]

InitWait ==
    /\ InitProxy
    /\ sts = [desired |-> 0, current |-> 0, ready |-> 0]
    /\ w \in {WaitCall(e) : e \in 0..MaxCount}
    /\ relay = NoRelay
    /\ api = NoApi
    /\ config = NoConfig

\* A not-found error is returned to PollImmediate, which gives up with it.
PollNotFoundFatal(resp, expectedReadyReplicas) ==
    IF resp.err = "notFound" THEN "error"
    ELSE IF resp.err # "none" THEN "again"
    ELSE IF PollCondition(resp, expectedReadyReplicas) THEN "ok"
    ELSE "again"

\* The poll function: (false, nil) on any error of the status query and on a
\* snapshot that does not satisfy the condition, (true, nil) on one that does.
Poll(resp, expectedReadyReplicas) ==
    IF resp.err # "none" THEN "again"
    ELSE IF PollCondition(resp, expectedReadyReplicas) THEN "ok"
    ELSE "again"

\* PollImmediate calls the poll function, which calls GetStatefulSetStatus.
WaitQuery ==
    /\ w.pc = "poll"
    /\ w' = [w EXCEPT !.pc = "inQuery"]
    /\ UNCHANGED <<mainpc, sts, activeConnectionCount, scaleDownTimer, scaleDownTimerMutex,
                   accepted, conn, timer, opens, closes, idleScaleDowns, shutpc,
                   relay, api, config>>

\* GetStatefulSetStatus returns and the poll function with it: PollImmediate
\* returns nil on (true, nil); on (false, nil) it waits for the next interval,
\* or returns ErrWaitTimeout if the timeout has been reached.
WaitRespond(resp) ==
    /\ w.pc = "inQuery"
    /\ LET r == Poll(resp, w.expected)
           seen == [w EXCEPT !.last = resp, !.notFound = @ \/ resp.err = "notFound"]
       IN w' = IF r = "again" /\ w.elapsed < WaitIntervals
               THEN [seen EXCEPT !.pc = "sleep"]
               ELSE [seen EXCEPT !.pc = "returned",
                                 !.result = IF r = "again" THEN "timeout" ELSE r]
    /\ UNCHANGED <<mainpc, sts, activeConnectionCount, scaleDownTimer, scaleDownTimerMutex,
                   accepted, conn, timer, opens, closes, idleScaleDowns, shutpc,
                   relay, api, config>>

\* One poll interval passes: a call that waits for it polls again; a status
\* query in progress stays in progress.
WaitTick ==
    /\ w.pc \in {"sleep", "inQuery"}
    /\ w.elapsed < WaitIntervals + MaxOverrun
    /\ w' = [w EXCEPT !.elapsed = @ + 1, !.pc = IF w.pc = "sleep" THEN "poll" ELSE @]
    /\ UNCHANGED <<mainpc, sts, activeConnectionCount, scaleDownTimer, scaleDownTimerMutex,
                   accepted, conn, timer, opens, closes, idleScaleDowns, shutpc,
                   relay, api, config>>

WaitNext ==
    \/ WaitQuery
    \/ \E resp \in Responses : WaitRespond(resp)
    \/ WaitTick

WaitSpec == InitWait /\ [][WaitNext]_vars

----------------------------------------------------------------------------
\* The relay stage of handleConnection, one session taken on its own: two
\* copyData goroutines, copyWg.Wait, then the deferred targetConn.Close() and the
\* deferred function with clientConn.Close().  The relay never looks at a byte,
\* so the i-th byte a party writes is taken to be [from |-> party, n |-> i]: all
\* bytes are distinct, and a lost, doubled, swapped or misrouted byte shows.

Dirs == {"client_to_target", "target_to_client"}

Socks == {"client", "target"}

\* copyData(dst, src, direction) as the two go statements call it.
Src(d) == IF d = "client_to_target" THEN "client" ELSE "target"

Dst(d) == IF d = "client_to_target" THEN "target" ELSE "client"

Other(d) == IF d = "client_to_target" THEN "target_to_client" ELSE "client_to_target"

\* The bytes the source of direction d has written so far.
Written(d) == [i \in 1..relay.dir[d].wrote |-> [from |-> Src(d), n |-> i]]

\* s is a prefix of t.
IsPrefix(s, t) == Len(s) <= Len(t) /\ s = SubSeq(t, 1, Len(s))

\* A direction as copyData starts: the source has written nothing and has not
\* closed, io.Copy has read nothing, holds nothing and has written nothing.
InitDir ==
    [wrote |-> 0, fin |-> FALSE, read |-> 0, chunk |-> <<>>, delivered |-> <<>>,
     st |-> "copy", err |-> FALSE]

\* A socket of the proxy: its read side and its write side are open, Close()
\* has not been called.
InitSock == [rd |-> TRUE, wr |-> TRUE, closes |-> 0]

\* net.Conn.Close(): both sides are closed.
SockClose(k) == [rd |-> FALSE, wr |-> FALSE, closes |-> k.closes + 1]

InitRelay ==
    /\ InitProxy
    /\ sts = [desired |-> 0, current |-> 0, ready |-> 0]
    /\ w = NoWait
    /\ api = NoApi
    /\ config = NoConfig
    /\ relay = [pc |-> "relay", dir |-> [d \in Dirs |-> InitDir],
                sock |-> [k \in Socks |-> InitSock]]

\* The party at the source of direction d writes its next byte.
PeerWrite(d) ==
    /\ relay.pc # "none"
    /\ ~relay.dir[d].fin
    /\ relay.dir[d].wrote < MaxBytes
    /\ relay' = [relay EXCEPT !.dir[d].wrote = @ + 1]
    /\ UNCHANGED <<mainpc, sts, activeConnectionCount, scaleDownTimer, scaleDownTimerMutex,
                   accepted, conn, timer, opens, closes, idleScaleDowns, shutpc, w, api, config>>

\* The party at the source of direction d closes its sending side.
PeerClose(d) ==
    /\ relay.pc # "none"
    /\ ~relay.dir[d].fin
    /\ relay' = [relay EXCEPT !.dir[d].fin = TRUE]
    /\ UNCHANGED <<mainpc, sts, activeConnectionCount, scaleDownTimer, scaleDownTimerMutex,
                   accepted, conn, timer, opens, closes, idleScaleDowns, shutpc, w, api, config>>

\* io.Copy reads from src: some of the bytes that have arrived, in order.
CopyRead(d) ==
    /\ relay.pc # "none"
    /\ relay.dir[d].st = "copy"
    /\ relay.dir[d].chunk = <<>>
    /\ relay.sock[Src(d)].rd
    /\ \E k \in 1..(relay.dir[d].wrote - relay.dir[d].read) :
         relay' = [relay EXCEPT
                      !.dir[d].chunk = SubSeq(Written(d), relay.dir[d].read + 1,
                                              relay.dir[d].read + k),
                      !.dir[d].read = @ + k]
    /\ UNCHANGED <<mainpc, sts, activeConnectionCount, scaleDownTimer, scaleDownTimerMutex,
                   accepted, conn, timer, opens, closes, idleScaleDowns, shutpc, w, api, config>>

\* Only the first byte of what was read is written, the rest is dropped.
CopyWriteShort(d) ==
    /\ relay.pc # "none"
    /\ relay.dir[d].st = "copy"
    /\ relay.dir[d].chunk # <<>>
    /\ relay.sock[Dst(d)].wr
    /\ relay' = [relay EXCEPT !.dir[d].delivered = Append(@, Head(relay.dir[d].chunk)),
                              !.dir[d].chunk = <<>>]
    /\ UNCHANGED <<mainpc, sts, activeConnectionCount, scaleDownTimer, scaleDownTimerMutex,
                   accepted, conn, timer, opens, closes, idleScaleDowns, shutpc, w, api, config>>

\* io.Copy writes to dst all it has read.
CopyWrite(d) ==
    /\ relay.pc # "none"
    /\ relay.dir[d].st = "copy"
    /\ relay.dir[d].chunk # <<>>
    /\ relay.sock[Dst(d)].wr
    /\ relay' = [relay EXCEPT !.dir[d].delivered = @ \o relay.dir[d].chunk,
                              !.dir[d].chunk = <<>>]
    /\ UNCHANGED <<mainpc, sts, activeConnectionCount, scaleDownTimer, scaleDownTimerMutex,
                   accepted, conn, timer, opens, closes, idleScaleDowns, shutpc, w, api, config>>

\* The source has closed and everything it wrote has been read: Read returns
\* io.EOF and io.Copy returns nil.
CopyEOF(d) ==
    /\ relay.pc # "none"
    /\ relay.dir[d].st = "copy"
    /\ relay.dir[d].chunk = <<>>
    /\ relay.dir[d].fin
    /\ relay.dir[d].read = relay.dir[d].wrote
    /\ relay.sock[Src(d)].rd
    /\ relay' = [relay EXCEPT !.dir[d].st = "copied"]
    /\ UNCHANGED <<mainpc, sts, activeConnectionCount, scaleDownTimer, scaleDownTimerMutex,
                   accepted, conn, timer, opens, closes, idleScaleDowns, shutpc, w, api, config>>

\* A Read or a Write fails (a reset by the peer, a socket side the proxy has
\* closed): io.Copy returns the error, what it held is lost.
CopyError(d) ==
    /\ relay.pc # "none"
    /\ relay.dir[d].st = "copy"
    /\ relay' = [relay EXCEPT !.dir[d].st = "copied", !.dir[d].err = TRUE,
                              !.dir[d].chunk = <<>>]
    /\ UNCHANGED <<mainpc, sts, activeConnectionCount, scaleDownTimer, scaleDownTimerMutex,
                   accepted, conn, timer, opens, closes, idleScaleDowns, shutpc, w, api, config>>

\* copyData closes its destination for good instead of half-closing.
HardClose(d) ==
    /\ relay.pc # "none"
    /\ relay.dir[d].st = "copied"
    /\ relay' = [relay EXCEPT !.sock[Dst(d)] = SockClose(@),
                              !.sock[Src(d)].rd = FALSE,
                              !.dir[d].st = "done"]
    /\ UNCHANGED <<mainpc, sts, activeConnectionCount, scaleDownTimer, scaleDownTimerMutex,
                   accepted, conn, timer, opens, closes, idleScaleDowns, shutpc, w, api, config>>

\* After io.Copy: dst.CloseWrite(), src.CloseRead(), and the deferred copyWg.Done().
HalfClose(d) ==
    /\ relay.pc # "none"
    /\ relay.dir[d].st = "copied"
    /\ relay' = [relay EXCEPT !.sock[Dst(d)].wr = FALSE,
                              !.sock[Src(d)].rd = FALSE,
                              !.dir[d].st = "done"]
    /\ UNCHANGED <<mainpc, sts, activeConnectionCount, scaleDownTimer, scaleDownTimerMutex,
                   accepted, conn, timer, opens, closes, idleScaleDowns, shutpc, w, api, config>>

\* copyWg.Wait() returns as soon as one copyData goroutine is done.
WaitEither ==
    /\ relay.pc = "relay"
    /\ \E d \in Dirs : relay.dir[d].st = "done"
    /\ relay' = [relay EXCEPT !.pc = "closeTarget"]
    /\ UNCHANGED <<mainpc, sts, activeConnectionCount, scaleDownTimer, scaleDownTimerMutex,
                   accepted, conn, timer, opens, closes, idleScaleDowns, shutpc, w, api, config>>

\* copyWg.Wait() returns: both copyData goroutines are done.
WaitBoth ==
    /\ relay.pc = "relay"
    /\ \A d \in Dirs : relay.dir[d].st = "done"
    /\ relay' = [relay EXCEPT !.pc = "closeTarget"]
    /\ UNCHANGED <<mainpc, sts, activeConnectionCount, scaleDownTimer, scaleDownTimerMutex,
                   accepted, conn, timer, opens, closes, idleScaleDowns, shutpc, w, api, config>>

\* handleConnection returns: the deferred targetConn.Close() runs first.
CloseTarget ==
    /\ relay.pc = "closeTarget"
    /\ relay' = [relay EXCEPT !.sock["target"] = SockClose(@), !.pc = "closeClient"]
    /\ UNCHANGED <<mainpc, sts, activeConnectionCount, scaleDownTimer, scaleDownTimerMutex,
                   accepted, conn, timer, opens, closes, idleScaleDowns, shutpc, w, api, config>>

\* Then the deferred function: clientConn.Close().
CloseClient ==
    /\ relay.pc = "closeClient"
    /\ relay' = [relay EXCEPT !.sock["client"] = SockClose(@), !.pc = "done"]
    /\ UNCHANGED <<mainpc, sts, activeConnectionCount, scaleDownTimer, scaleDownTimerMutex,
                   accepted, conn, timer, opens, closes, idleScaleDowns, shutpc, w, api, config>>

RelayNext ==
    \/ \E d \in Dirs : PeerWrite(d)
    \/ \E d \in Dirs : PeerClose(d)
    \/ \E d \in Dirs : CopyRead(d)
    \/ \E d \in Dirs : CopyWrite(d)
    \/ \E d \in Dirs : CopyEOF(d)
    \/ \E d \in Dirs : CopyError(d)
    \/ \E d \in Dirs : HalfClose(d)
    \/ WaitBoth
    \/ CloseTarget
    \/ CloseClient

RelaySpec == InitRelay /\ [][RelayNext]_vars

----------------------------------------------------------------------------
\* The adapter functions GetStatefulSetStatus and ScaleStatefulSet, called one
\* after the other against an API server that holds the StatefulSet or not and
\* that may fail any request.

\* The StatefulSet as the API server holds it (spec.replicas, status.replicas,
\* status.readyReplicas), or no such object.
Objects ==
    {[exists |-> FALSE, desired |-> 0, current |-> 0, ready |-> 0]}
    \cup [exists : {TRUE}, desired : 0..MaxCount, current : 0..MaxCount, ready : 0..MaxCount]

\* What a request to the API server can run into: nothing, or a failure of the
\* request itself.
Faults == {"none", "other"}

\* Nothing returned (yet): (nil, nil).
NoOut ==
    [kind |-> "none", notFound |-> FALSE,
     DesiredReplicas |-> 0, CurrentReplicas |-> 0, ReadyReplicas |-> 0]

\* An error return: (nil, err); notFound tells whether err says the object does
\* not exist (apierrors.IsNotFound on the wrapped error, "... not found" in its text).
ErrOut(isNotFound) == [NoOut EXCEPT !.kind = "error", !.notFound = isNotFound]

\* A successful return carrying the replica counts of object o.
OkOut(o) ==
    [kind |-> "ok", notFound |-> FALSE,
     DesiredReplicas |-> StatefulSetStatus(o).DesiredReplicas,
     CurrentReplicas |-> StatefulSetStatus(o).CurrentReplicas,
     ReadyReplicas |-> StatefulSetStatus(o).ReadyReplicas]

\* No call made so far.
NoCall == [op |-> "none", target |-> 0, ok |-> FALSE]

InitApi ==
    /\ InitProxy
    /\ sts = [desired |-> 0, current |-> 0, ready |-> 0]
    /\ w = NoWait
    /\ relay = NoRelay
    /\ config = NoConfig
    /\ api \in [pc : {"idle"}, obj : Objects, op : {"none"}, target : {0}, fault : {"none"},
                 requests : {0}, out : {NoOut}, prev : {NoCall}]

\* GetStatefulSetStatus: one Get request; an error of it is wrapped and
\* returned, not-found with a message of its own; otherwise the snapshot.
ApiGet ==
    /\ api.pc = "idle"
    /\ \E f \in Faults :
         api' = [api EXCEPT
                    !.pc = "returned", !.op = "get", !.target = 0, !.fault = f,
                    !.requests = 1,
                    !.out = IF f # "none" THEN ErrOut(FALSE)
                            ELSE IF ~api.obj.exists THEN ErrOut(TRUE)
                            ELSE OkOut(api.obj)]
    /\ UNCHANGED <<mainpc, sts, activeConnectionCount, scaleDownTimer, scaleDownTimerMutex,
                   accepted, conn, timer, opens, closes, idleScaleDowns, shutpc, w, relay, config>>

\* A failed patch is sent a second time.
ApiScaleRetry(targetReplicas) ==
    /\ api.pc = "idle"
    /\ \E f \in Faults :
         LET ok == api.obj.exists
             patched == [api.obj EXCEPT !.desired = targetReplicas]
         IN api' = [api EXCEPT
                       !.pc = "returned", !.op = "scale", !.target = targetReplicas,
                       !.fault = f,
                       !.requests = IF f = "none" THEN 1 ELSE 2,
                       !.obj = IF ok THEN patched ELSE @,
                       !.out = IF ok THEN OkOut(patched) ELSE ErrOut(TRUE)]
    /\ UNCHANGED <<mainpc, sts, activeConnectionCount, scaleDownTimer, scaleDownTimerMutex,
                   accepted, conn, timer, opens, closes, idleScaleDowns, shutpc, w, relay, config>>

\* The patch is refused when spec.replicas already has the target value.
ApiScaleIfChanged(targetReplicas) ==
    /\ api.pc = "idle"
    /\ \E f \in Faults :
         LET ok == f = "none" /\ api.obj.exists /\ api.obj.desired # targetReplicas
             patched == [api.obj EXCEPT !.desired = targetReplicas]
         IN api' = [api EXCEPT
                       !.pc = "returned", !.op = "scale", !.target = targetReplicas,
                       !.fault = f, !.requests = 1,
                       !.obj = IF ok THEN patched ELSE @,
                       !.out = IF ok THEN OkOut(patched)
                               ELSE ErrOut(f = "none" /\ ~api.obj.exists)]
    /\ UNCHANGED <<mainpc, sts, activeConnectionCount, scaleDownTimer, scaleDownTimerMutex,
                   accepted, conn, timer, opens, closes, idleScaleDowns, shutpc, w, relay, config>>

\* ScaleStatefulSet: one strategic-merge patch {"spec":{"replicas":target}}; an
\* error of it (a failed request, no such object) is wrapped and returned with
\* a nil StatefulSet; otherwise the patched object is returned.
ApiScale(targetReplicas) ==
    /\ api.pc = "idle"
    /\ \E f \in Faults :
         LET ok == f = "none" /\ api.obj.exists
             patched == [api.obj EXCEPT !.desired = targetReplicas]
         IN api' = [api EXCEPT
                       !.pc = "returned", !.op = "scale", !.target = targetReplicas,
                       !.fault = f, !.requests = 1,
                       !.obj = IF ok THEN patched ELSE @,
                       !.out = IF ok THEN OkOut(patched)
                               ELSE ErrOut(f = "none" /\ ~api.obj.exists)]
    /\ UNCHANGED <<mainpc, sts, activeConnectionCount, scaleDownTimer, scaleDownTimerMutex,
                   accepted, conn, timer, opens, closes, idleScaleDowns, shutpc, w, relay, config>>

\* The caller has the result; the next call can be made.
ApiReturn ==
    /\ api.pc = "returned"
    /\ api' = [api EXCEPT !.pc = "idle", !.op = "none", !.target = 0, !.fault = "none",
                          !.requests = 0, !.out = NoOut,
                          !.prev = [op |-> api.op, target |-> api.target,
                                    ok |-> api.out.kind = "ok"]]
    /\ UNCHANGED <<mainpc, sts, activeConnectionCount, scaleDownTimer, scaleDownTimerMutex,
                   accepted, conn, timer, opens, closes, idleScaleDowns, shutpc, w, relay, config>>

ApiNext ==
    \/ ApiGet
    \/ \E targetReplicas \in 0..MaxCount : ApiScale(targetReplicas)
    \/ ApiReturn

ApiSpec == InitApi /\ [][ApiNext]_vars

----------------------------------------------------------------------------
\* Configuration loading in main, and the dial target handleConnection builds
\* from it.  Strings stand for themselves; a duration is a number of seconds.

defaultProxyListenAddr == ":8080"
defaultBuildkitdStatefulSetName == "buildkitd"
defaultBuildkitdNamespace == "default"
\* The port of the configuration table in README.md.
documentedBuildkitdTargetPort == "8273"
defaultBuildkitdTargetPort == "8372"
defaultBuildkitdHeadlessSvcName == "buildkitd-headless"
defaultScaleDownIdleTimeoutStr == "2m0s"

\* A flag that is not on the command line.
NotGiven == "(not given)"

\* The environment: os.Getenv gives "" for a variable that is unset and for
\* one that is set to the empty string.
Environments ==
    [PROXY_LISTEN_ADDR : {"", ":9090"},
     BUILDKITD_STATEFULSET_NAME : {"", "env-sts"},
     BUILDKITD_STATEFULSET_NAMESPACE : {"", "env-ns"},
     BUILDKITD_HEADLESS_SERVICE_NAME : {"", "env-svc"},
     BUILDKITD_TARGET_PORT : {"", "1111"},
     SCALE_DOWN_IDLE_TIMEOUT : {"", "30s", "soon"},
     KUBECONFIG_PATH : {"", "/env/kubeconfig"},
     HOME : {"", "/home/user"}]

\* The command line: the value of each flag (which can be empty), or NotGiven.
CommandLines ==
    [proxyListenAddr : {NotGiven, ":7070"},
     buildkitdStatefulSetName : {NotGiven, "", "flag-sts"},
     buildkitdNamespace : {NotGiven, "flag-ns"},
     buildkitdHeadlessSvcName : {NotGiven, "flag-svc"},
     buildkitdTargetPort : {NotGiven, "2222"},
     scaleDownIdleTimeoutStr : {NotGiven, "1h"},
     kubeconfigPath : {NotGiven, "/flag/kubeconfig"}]

\* filepath.Join(home, ".kube", "config") on a clean home directory.
defaultKubeconfig(home) == IF home # "" THEN home \o "/.kube/config" ELSE ""

\* The defaults the flags are registered with.
FlagDefaults(env) ==
    [proxyListenAddr |-> defaultProxyListenAddr,
     buildkitdStatefulSetName |-> defaultBuildkitdStatefulSetName,
     buildkitdNamespace |-> defaultBuildkitdNamespace,
     buildkitdHeadlessSvcName |-> defaultBuildkitdHeadlessSvcName,
     buildkitdTargetPort |-> defaultBuildkitdTargetPort,
     scaleDownIdleTimeoutStr |-> defaultScaleDownIdleTimeoutStr,
     kubeconfigPath |-> defaultKubeconfig(env.HOME)]

\* flag.Parse: a flag on the command line sets its variable, any other
\* variable has its default.
FlagParse(args, env) ==
    [name \in DOMAIN args |->
        IF args[name] # NotGiven THEN args[name] ELSE FlagDefaults(env)[name]]

\* An environment variable replaces the value only where the flag is absent.
EnvOverrideUnlessFlag(val, args, env) ==
    LET override(name, envVal) ==
            IF envVal # "" /\ args[name] = NotGiven THEN envVal ELSE val[name]
    IN [proxyListenAddr |-> override("proxyListenAddr", env.PROXY_LISTEN_ADDR),
        buildkitdStatefulSetName |->
            override("buildkitdStatefulSetName", env.BUILDKITD_STATEFULSET_NAME),
        buildkitdNamespace |->
            override("buildkitdNamespace", env.BUILDKITD_STATEFULSET_NAMESPACE),
        buildkitdHeadlessSvcName |->
            override("buildkitdHeadlessSvcName", env.BUILDKITD_HEADLESS_SERVICE_NAME),
        buildkitdTargetPort |-> override("buildkitdTargetPort", env.BUILDKITD_TARGET_PORT),
        scaleDownIdleTimeoutStr |->
            override("scaleDownIdleTimeoutStr", env.SCALE_DOWN_IDLE_TIMEOUT),
        kubeconfigPath |-> override("kubeconfigPath", env.KUBECONFIG_PATH)]

\* The overrides after flag.Parse: a non-empty environment variable replaces
\* the value of its variable.
EnvOverride(val, args, env) ==
    LET override(name, envVal) == IF envVal # "" THEN envVal ELSE val[name]
    IN [proxyListenAddr |-> override("proxyListenAddr", env.PROXY_LISTEN_ADDR),
        buildkitdStatefulSetName |->
            override("buildkitdStatefulSetName", env.BUILDKITD_STATEFULSET_NAME),
        buildkitdNamespace |->
            override("buildkitdNamespace", env.BUILDKITD_STATEFULSET_NAMESPACE),
        buildkitdHeadlessSvcName |->
            override("buildkitdHeadlessSvcName", env.BUILDKITD_HEADLESS_SERVICE_NAME),
        buildkitdTargetPort |-> override("buildkitdTargetPort", env.BUILDKITD_TARGET_PORT),
        scaleDownIdleTimeoutStr |->
            override("scaleDownIdleTimeoutStr", env.SCALE_DOWN_IDLE_TIMEOUT),
        kubeconfigPath |-> override("kubeconfigPath", env.KUBECONFIG_PATH)]

\* time.ParseDuration on the strings that occur: the seconds, or an error.
ParseDuration(str) ==
    CASE str = "2m0s" -> [err |-> FALSE, d |-> 2 * 60]
      [] str = "30s" -> [err |-> FALSE, d |-> 30]
      [] str = "1h" -> [err |-> FALSE, d |-> 60 * 60]
      [] OTHER -> [err |-> TRUE, d |-> 0]

\* fmt.Sprintf for a format whose verbs are all %s: lits are the pieces of the
\* format around the verbs, args the arguments.
RECURSIVE Sprintf(_, _)
Sprintf(lits, args) ==
    IF args = <<>> THEN Head(lits)
    ELSE Head(lits) \o Head(args) \o Sprintf(Tail(lits), Tail(args))

\* "%s-0.%s.%s.svc.cluster.local:%s"
targetAddrFormat == <<"", "-0.", ".", ".svc.cluster.local:", "">>

\* The namespace and the service name are passed in each other's place.
targetAddrSwapped(val) ==
    Sprintf(targetAddrFormat,
            <<val.buildkitdStatefulSetName, val.buildkitdNamespace,
              val.buildkitdHeadlessSvcName, val.buildkitdTargetPort>>)

\* The address handleConnection dials.
targetAddr(val) ==
    Sprintf(targetAddrFormat,
            <<val.buildkitdStatefulSetName, val.buildkitdHeadlessSvcName,
              val.buildkitdNamespace, val.buildkitdTargetPort>>)

InitConfig ==
    /\ InitProxy
    /\ sts = [desired |-> 0, current |-> 0, ready |-> 0]
    /\ w = NoWait
    /\ relay = NoRelay
    /\ api = NoApi
    /\ config \in [pc : {"start"}, env : Environments, args : CommandLines,
                    val : {[name \in {} |-> ""]}, scaleDownIdleTimeout : {0},
                    dials : {0}, dialed : {{}}]

\* main up to "Configuration loaded": the flags, the overrides from the
\* environment, the idle timeout parsed; an idle timeout that does not parse
\* ends the process.
LoadConfig ==
    /\ config.pc = "start"
    /\ LET val == EnvOverride(FlagParse(config.args, config.env), config.args, config.env)
           parsed == ParseDuration(val.scaleDownIdleTimeoutStr)
       IN config' = [config EXCEPT
                        !.pc = IF parsed.err THEN "exit" ELSE "loaded",
                        !.val = val,
                        !.scaleDownIdleTimeout = parsed.d]
    /\ UNCHANGED <<mainpc, sts, activeConnectionCount, scaleDownTimer, scaleDownTimerMutex,
                   accepted, conn, timer, opens, closes, idleScaleDowns, shutpc, w, relay, api>>

\* A connection that has reached the dial builds the target address; the
\* controller state (replica counts, counter, timer) is no argument of it.
DialTarget ==
    /\ config.pc = "loaded"
    /\ config.dials < MaxAccepts
    /\ config' = [config EXCEPT
                     !.dials = @ + 1,
                     !.dialed = @ \cup {targetAddr(config.val)}]
    /\ UNCHANGED <<mainpc, sts, activeConnectionCount, scaleDownTimer, scaleDownTimerMutex,
                   accepted, conn, timer, opens, closes, idleScaleDowns, shutpc, w, relay, api>>

ConfigNext ==
    \/ LoadConfig
    \/ DialTarget

ConfigSpec == InitConfig /\ [][ConfigNext]_vars

----------------------------------------------------------------------------
\* Properties

\* C1: in every reachable state activeConnectionCount is >= 0 and equals the
\* number of handlers that executed their increment minus the number that
\* executed their decrement.
C1_CountIsOpensMinusCloses ==
    /\ activeConnectionCount >= 0
    /\ activeConnectionCount = opens - closes

\* Two handlers have incremented, one of them has decremented already while the
\* other is still running.
C1_Witness ==
    /\ opens = 2
    /\ closes = 1
    /\ activeConnectionCount = 1
    /\ \E h \in Handlers : conn[h].pc = "relay"

\* C2: in every reachable state at most one scale-down timer is pending (armed,
\* not stopped, its callback not yet run).
C2_AtMostOnePendingTimer == Cardinality({t \in Timers : Pending(t)}) <= 1

\* C3: a timer callback issues ScaleStatefulSet(0) only at a moment when
\* activeConnectionCount is 0.
C3_ScaleDownOnlyAtZero ==
    [][\A t \in Timers :
          (timer[t].st = "scale" /\ timer'[t].st # "scale") => activeConnectionCount = 0]_vars

\* C4: when the callback of a timer reads the counter after a connection has
\* opened since the timer was armed, it reads a count > 0 (and so issues no
\* scale-down call).
C4_StaleTimerObservesActive ==
    [][\A t \in Timers :
          (timer[t].st = "check" /\ timer'[t].st # "check" /\ timer[t].opened)
              => (activeConnectionCount > 0 /\ timer'[t].st # "scale")]_vars

\* C5: at the moment a handler executes time.AfterFunc in its deferred close,
\* activeConnectionCount is 0.
C5_ArmedOnlyAtZero ==
    [][\A h \in Handlers :
          (conn[h].pc = "arm" /\ conn'[h].pc # "arm") => activeConnectionCount = 0]_vars

\* The handlers past their status query, up to the end of their deferred close.
Decided(h) == conn[h].pc \in {"scaleUp", "wait", "dial", "relay", "close", "armLock", "arm"}

\* C6: a first connection whose status query reported ready == 0 has issued
\* ScaleStatefulSet(1) exactly once when it is past the scale-up step, has not
\* dialed while it waits for readiness, and dials or has dialed only with a
\* readiness wait that returned success.
C6_FirstScalesUpOnceThenWaitsThenDials ==
    \A h \in Handlers :
        (Decided(h) /\ conn[h].isFirstConnection /\ conn[h].ready = 0) =>
            /\ conn[h].pc = "scaleUp" => (conn[h].scaleUps = 0 /\ conn[h].waitRes = "none")
            /\ conn[h].pc # "scaleUp" => conn[h].scaleUps = 1
            /\ conn[h].pc = "wait" => (conn[h].waitRes = "none" /\ ~conn[h].dialed)
            /\ (conn[h].pc \in {"dial", "relay"} \/ conn[h].dialed) => conn[h].waitRes = "ok"

\* A first connection that saw ready == 0 relays after its scale-up and a
\* successful readiness wait.
C6_Witness ==
    \E h \in Handlers :
        /\ conn[h].pc = "relay"
        /\ conn[h].isFirstConnection
        /\ conn[h].ready = 0
        /\ conn[h].scaleUps = 1

\* A handler that is about to issue ScaleStatefulSet(1) or waits for readiness.
ScalingUp(h) == conn[h].pc \in {"scaleUp", "wait"}

\* C7: in every reachable state at most one handler is in its scale-up (from
\* the ScaleStatefulSet(1) call to the return of the readiness wait), and such a
\* handler is first and observed ready == 0.
C7_AtMostOneScaleUp ==
    /\ Cardinality({h \in Handlers : ScalingUp(h)}) <= 1
    /\ \A h \in Handlers :
          ScalingUp(h) => (conn[h].isFirstConnection /\ conn[h].ready = 0)

\* One handler waits for readiness while another one has read ready == 0 too.
C7_Witness ==
    \E h, g \in Handlers :
        /\ h # g
        /\ conn[h].pc = "wait"
        /\ conn[g].ready = 0
        /\ conn[g].pc = "close"

\* C8: a connection that is not first and whose status query reported
\* ready == 0 goes to its deferred close having issued no scale call, waited for
\* no readiness and dialed no backend.
C8_NonFirstNotReadyRejected ==
    \A h \in Handlers :
        (~conn[h].isFirstConnection /\ conn[h].ready = 0) =>
            /\ conn[h].pc \in {"close", "armLock", "arm"}
            /\ conn[h].scaleUps = 0
            /\ conn[h].waitRes = "none"
            /\ ~conn[h].dialed

\* A non-first connection is rejected while the first one is still waiting for
\* the readiness of its scale-up.
C8_Witness ==
    \E h, g \in Handlers :
        /\ ~conn[h].isFirstConnection
        /\ conn[h].ready = 0
        /\ conn[h].pc = "close"
        /\ conn[g].pc = "wait"
        /\ conn[g].scaleUps = 1

\* C9: a connection, first or not, whose status query reported ready > 0 issues
\* no scale call and no readiness wait and goes directly to the dial.
C9_ReadyGoesStraightToDial ==
    \A h \in Handlers :
        conn[h].ready > 0 =>
            /\ conn[h].scaleUps = 0
            /\ conn[h].waitRes = "none"
            /\ conn[h].pc = "dial" \/ conn[h].dialed

\* A first and a non-first connection that both saw ready > 0 relay side by side.
C9_Witness ==
    \E h, g \in Handlers :
        /\ conn[h].isFirstConnection /\ conn[h].ready > 0 /\ conn[h].pc = "relay"
        /\ ~conn[g].isFirstConnection /\ conn[g].ready > 0 /\ conn[g].pc = "relay"

\* C11: after the count has dropped to 0, a timer callback eventually calls
\* ScaleStatefulSet(0), unless a connection opens first or the process ends
\* (the armed timer is assumed to expire, which it does while the process runs).
C11_IdleLeadsToScaleDown ==
    (Alive /\ closes >= 1 /\ activeConnectionCount = 0)
        ~> (idleScaleDowns >= 1 \/ activeConnectionCount > 0 \/ ~Alive)

\* The count is 0 after a close, no connection has opened since although the
\* listener would still accept one, and a callback has called ScaleStatefulSet(0).
C11_Witness ==
    /\ Alive
    /\ shutpc = "running"
    /\ closes >= 1
    /\ accepted < MaxAccepts
    /\ activeConnectionCount = 0
    /\ idleScaleDowns = 1

\* C12: once the signal has been received no connection is accepted any more,
\* and a step that ends the process is taken only when no handler is in flight
\* or by the expiry of the 25 s shutdown timeout.
C12_ExitOnlyWhenDoneOrTimedOut ==
    [][/\ (shutpc = "waiting" => accepted' <= accepted)
       /\ (shutpc = "waiting" /\ Alive /\ ~Alive')
             => (InFlight = {} \/ shutpc' = "exitTimeout")]_vars

\* C13: once the signal has been received the process eventually ends, whether
\* or not the relaying handlers ever finish.
C13_SignalLeadsToExit == (shutpc # "running") ~> ~Alive

\* The signal has been received while a handler relays, and nothing makes that
\* relay end.
C13_Witness ==
    /\ Alive
    /\ shutpc = "waiting"
    /\ \E h \in Handlers : conn[h].pc = "relay"

\* C14: a handler whose readiness wait returned the timeout error is in its
\* deferred close (or has returned, which clears waitRes): it has not dialed
\* the backend and is neither dialing nor relaying.
C14_WaitTimeoutClosesWithoutDial ==
    \A h \in Handlers :
        conn[h].waitRes = "timeout" =>
            /\ conn[h].pc \in {"close", "armLock", "arm"}
            /\ ~conn[h].dialed
            /\ conn[h].isFirstConnection

\* The readiness wait of a first connection has timed out after its scale-up and
\* the handler has closed the client connection.
C14_Witness ==
    \E h \in Handlers :
        /\ conn[h].waitRes = "timeout"
        /\ conn[h].scaleUps = 1
        /\ conn[h].clientCloses = 1
        /\ conn[h].pc = "armLock"

\* The positions of a handler before its deferred close has run.
BeforeClose(h) ==
    conn[h].pc \in {"inc", "cancelLock", "cancel", "status", "scaleUp", "wait", "dial",
                    "relay", "close"}

\* C15: a handler that has not reached its deferred close has neither closed the
\* client connection nor decremented the counter; one that is past it or has
\* returned has done each exactly once, and if its decrement returned 0 it is
\* about to arm the timer or has armed it.
C15_EveryExitClosesAndDecrementsOnce ==
    \A h \in Handlers :
        /\ BeforeClose(h) => (conn[h].clientCloses = 0 /\ conn[h].decs = 0)
        /\ conn[h].pc \in {"armLock", "arm"} =>
              (conn[h].clientCloses = 1 /\ conn[h].decs = 1 /\ conn[h].last)
        /\ conn[h].pc = "done" =>
              /\ conn[h].clientCloses = 1
              /\ conn[h].decs = 1
              /\ conn[h].last => timer[h].st # "unused"
              /\ ~conn[h].last => timer[h].st = "unused"

\* Two handlers have returned: one was not the last and armed nothing, the
\* other brought the count to 0 and its timer is armed.
C15_Witness ==
    \E h, g \in Handlers :
        /\ conn[h].pc = "done" /\ ~conn[h].last /\ timer[h].st = "unused"
        /\ conn[g].pc = "done" /\ conn[g].last /\ timer[g].st = "armed"
        /\ activeConnectionCount = 0

\* main() is in its startup reconciliation: at the status query, at the
\* warning about its error or at the scale-down call.
Reconciling == mainpc \in {"reconcile", "reconcileWarn", "reconcileScale"}

\* C16: while the startup reconciliation runs no listener exists, so nothing has
\* been accepted, no handler runs and no timer is armed; and every step of the
\* reconciliation, failed or not, leads to the scale-down call or to net.Listen,
\* never to the end of the process.
C16_ReconcileBeforeListen ==
    /\ [](Reconciling =>
            /\ Alive
            /\ accepted = 0
            /\ InFlight = {}
            /\ \A t \in Timers : timer[t].st = "unused")
    /\ [][Reconciling => (Alive' /\ mainpc' \in {"reconcile", "reconcileWarn", "reconcileScale", "listen"})]_vars
    /\ [][(mainpc = "reconcile" /\ mainpc' = "reconcileScale")
             => StatefulSetStatus(sts).ReadyReplicas > 0]_vars
    /\ [][accepted' > accepted => mainpc = "listening"]_vars

\* The listener has accepted its first connection while the StatefulSet has its
\* replicas desired and ready: the reconciliation is over and scaled nothing
\* down (nothing was ready then, or the status query or the scale-down call
\* failed).
C16_Witness ==
    /\ mainpc = "listening"
    /\ accepted = 1
    /\ opens = 0
    /\ sts.desired = MaxReplicas
    /\ sts.ready = MaxReplicas
    /\ sts.current = MaxReplicas

\* C17: a first connection whose status query returns a snapshot with 0 desired
\* replicas goes on to the ScaleStatefulSet(1) call (and from there to the
\* readiness wait), never straight to the dial.
C17_FirstAtZeroDesiredScalesUp ==
    [][\A h \in Handlers :
          (/\ conn[h].pc = "status"
           /\ conn[h].isFirstConnection
           /\ StatefulSetStatus(sts).DesiredReplicas = 0
           /\ conn'[h].pc \notin {"status", "close"})
              => conn'[h].pc = "scaleUp"]_vars

\* C18: a call returns success only on a poll whose snapshot satisfies
\* ready >= expected, current = desired, ready = desired and desired >= expected,
\* and on every polled snapshot the condition the code evaluates has the value
\* of that predicate.
C18_SuccessOnlyOnStabilizedPoll ==
    LET Stabilized(st, expected) ==
            /\ st.ReadyReplicas >= expected
            /\ st.CurrentReplicas = st.DesiredReplicas
            /\ st.ReadyReplicas = st.DesiredReplicas
            /\ st.DesiredReplicas >= expected
    IN /\ w.result = "ok" => (w.last.err = "none" /\ Stabilized(w.last, w.expected))
       /\ w.last.err = "none" =>
             (PollCondition(w.last, w.expected) <=> Stabilized(w.last, w.expected))

\* A call expecting 1 ready replica has returned success on its second poll, on
\* a snapshot with desired = current = ready = 2.
C18_Witness ==
    /\ w.result = "ok"
    /\ w.elapsed = 1
    /\ w.expected = 1
    /\ w.last.ReadyReplicas = 2

\* C19: a status query that fails with not-found before the timeout leaves the
\* call polling, without a result, and a poll before the timeout whose snapshot
\* satisfies the condition returns success whatever was polled before.
C19_NotFoundKeepsPolling ==
    [][(w.pc = "inQuery" /\ w'.pc # "inQuery" /\ w.elapsed < WaitIntervals) =>
          /\ w'.last.err = "notFound" => (w'.pc = "sleep" /\ w'.result = "none")
          /\ (w'.last.err = "none" /\ PollCondition(w'.last, w.expected)) =>
                (w'.pc = "returned" /\ w'.result = "ok")]_vars

\* A call has returned success after a poll that failed with not-found.
C19_Witness ==
    /\ w.result = "ok"
    /\ w.notFound
    /\ w.elapsed >= 1

\* C20: a call on which no poll satisfied the condition returns the timeout
\* error and never success, and no call is still in progress after its timeout.
C20_TimeoutBoundsTheWait ==
    /\ (w.pc = "returned" /\ ~(w.last.err = "none" /\ PollCondition(w.last, w.expected)))
          => w.result = "timeout"
    /\ w.pc \in {"poll", "inQuery", "sleep"} => w.elapsed <= WaitIntervals

\* C21: while a relay direction has not completed neither socket has been
\* closed, no socket is ever closed twice, and once the handler has returned the
\* client socket and the backend socket have each been closed exactly once.
C21_SocketsClosedOnceAfterBoth ==
    /\ (\E d \in Dirs : relay.dir[d].st # "done") =>
          \A k \in Socks : relay.sock[k].closes = 0
    /\ \A k \in Socks : relay.sock[k].closes <= 1
    /\ relay.pc = "done" => \A k \in Socks : relay.sock[k].closes = 1

\* The handler has returned from a session in which both parties sent all
\* their bytes and one direction ended with an I/O error.
C21_Witness ==
    /\ relay.pc = "done"
    /\ relay.dir["client_to_target"].err
    /\ ~relay.dir["target_to_client"].err
    /\ \A d \in Dirs : relay.dir[d].wrote = MaxBytes

\* C22: a direction that completes only closes the write side of its
\* destination and the read side of its source and leaves the other direction
\* as it is; so a direction that is still copying has the read side of its
\* source and the write side of its destination open.
C22_HalfCloseKeepsOtherDirection ==
    /\ [](\A d \in Dirs :
            relay.dir[d].st = "copy" =>
                (relay.sock[Src(d)].rd /\ relay.sock[Dst(d)].wr))
    /\ [][\A d \in Dirs :
            (relay.dir[d].st = "copied" /\ relay'.dir[d].st = "done") =>
                /\ ~relay'.sock[Dst(d)].wr
                /\ ~relay'.sock[Src(d)].rd
                /\ relay'.sock[Dst(d)].rd = relay.sock[Dst(d)].rd
                /\ relay'.sock[Src(d)].wr = relay.sock[Src(d)].wr
                /\ \A k \in Socks : relay'.sock[k].closes = relay.sock[k].closes
                /\ relay'.dir[Other(d)] = relay.dir[Other(d)]]_vars

\* The client-to-target direction is done and the other direction has since
\* delivered a byte and holds the next one.
C22_Witness ==
    /\ relay.dir["client_to_target"].st = "done"
    /\ relay.dir["target_to_client"].st = "copy"
    /\ Len(relay.dir["target_to_client"].delivered) = 1
    /\ relay.dir["target_to_client"].chunk # <<>>

\* C23: in each direction what has been delivered to the destination is a
\* prefix of what the source has written; once both directions have completed
\* without an I/O error it is all the source wrote before it closed.
C23_DeliveredIsPrefixOfWritten ==
    \A d \in Dirs :
        /\ IsPrefix(relay.dir[d].delivered, Written(d))
        /\ ((\A e \in Dirs : relay.dir[e].st = "done" /\ ~relay.dir[e].err) =>
              (relay.dir[d].fin /\ relay.dir[d].delivered = Written(d)))

\* Both directions have completed without error, each having delivered
\* MaxBytes bytes.
C23_Witness ==
    \A d \in Dirs :
        /\ relay.dir[d].st = "done"
        /\ ~relay.dir[d].err
        /\ Len(relay.dir[d].delivered) = MaxBytes

\* C24: a returned GetStatefulSetStatus call has issued exactly one request;
\* if the object exists and the request did not fail it returns the snapshot
\* with desired = spec.replicas, current = status.replicas and ready =
\* status.readyReplicas; if the object does not exist it returns an error that
\* says not-found, and no snapshot.
C24_GetReturnsSnapshotOrNotFound ==
    (api.pc = "returned" /\ api.op = "get") =>
        /\ api.requests = 1
        /\ (api.obj.exists /\ api.fault = "none") =>
              /\ api.out.kind = "ok"
              /\ api.out.DesiredReplicas = api.obj.desired
              /\ api.out.CurrentReplicas = api.obj.current
              /\ api.out.ReadyReplicas = api.obj.ready
        /\ (~api.obj.exists /\ api.fault = "none") => api.out = ErrOut(TRUE)
        /\ api.fault # "none" => api.out = ErrOut(FALSE)

\* A call has returned the snapshot of an object whose three counts differ.
C24_Witness ==
    /\ api.pc = "returned"
    /\ api.op = "get"
    /\ api.out.kind = "ok"
    /\ api.out.DesiredReplicas = 2
    /\ api.out.CurrentReplicas = 1
    /\ api.out.ReadyReplicas = 0

\* C25: a returned ScaleStatefulSet call has issued exactly one request; on
\* success the StatefulSet it returns, and the object, have spec.replicas equal
\* to the target; on an error of the request it returns the error and no
\* StatefulSet, and the object is as it was.
C25_ScaleIssuesOnePatch ==
    [][(api.pc = "idle" /\ api'.op = "scale") =>
          /\ api'.requests = 1
          /\ api'.out.kind = "ok" =>
                (api'.out.DesiredReplicas = api'.target /\ api'.obj.desired = api'.target)
          /\ (api'.fault # "none" \/ ~api.obj.exists) =>
                /\ api'.out.kind = "error"
                /\ api'.out.DesiredReplicas = 0
                /\ api'.obj = api.obj]_vars

\* A call with a target other than the current spec.replicas has failed and
\* has left the object as it was.
C25_Witness ==
    /\ api.pc = "returned"
    /\ api.op = "scale"
    /\ api.out.kind = "error"
    /\ api.fault = "other"
    /\ api.obj.exists
    /\ api.obj.desired # api.target

\* C26: a ScaleStatefulSet call fails only if the request fails or the object
\* does not exist, whatever spec.replicas is; a successful call changes nothing
\* but spec.replicas, so one with the target spec.replicas already has (0 on a
\* StatefulSet at 0, or the target of the call before) leaves the object as it is.
C26_ScaleIsIdempotent ==
    [][(api.pc = "idle" /\ api'.op = "scale") =>
          /\ api'.out.kind = "ok" <=> (api'.fault = "none" /\ api.obj.exists)
          /\ api'.out.kind = "ok" =>
                /\ api'.obj = [api.obj EXCEPT !.desired = api'.target]
                /\ api.obj.desired = api'.target => api'.obj = api.obj]_vars

\* A second successful call with target 0 directly after a first one.
C26_Witness ==
    /\ api.prev = [op |-> "scale", target |-> 0, ok |-> TRUE]
    /\ api.pc = "returned"
    /\ api.op = "scale"
    /\ api.target = 0
    /\ api.out.kind = "ok"
    /\ api.obj.desired = 0

\* The value of a setting by the rule of precedence: the environment variable
\* if non-empty, else the flag if given, else the default.
Effective(envVal, flagVal, default) ==
    IF envVal # "" THEN envVal ELSE IF flagVal # NotGiven THEN flagVal ELSE default

\* C27: once the configuration is loaded (or the process has exited over the
\* idle timeout), each of the seven settings has the value of its environment
\* variable if that is non-empty, otherwise of its flag if given, otherwise its
\* default; the idle timeout is that string parsed, and the process exits
\* exactly if it does not parse.
C27_EnvThenFlagThenDefault ==
    config.pc \in {"loaded", "exit"} =>
        LET env == config.env
            args == config.args
            idle == Effective(env.SCALE_DOWN_IDLE_TIMEOUT, args.scaleDownIdleTimeoutStr, "2m0s")
        IN /\ config.val.proxyListenAddr =
                Effective(env.PROXY_LISTEN_ADDR, args.proxyListenAddr, ":8080")
           /\ config.val.buildkitdStatefulSetName =
                Effective(env.BUILDKITD_STATEFULSET_NAME, args.buildkitdStatefulSetName,
                          "buildkitd")
           /\ config.val.buildkitdNamespace =
                Effective(env.BUILDKITD_STATEFULSET_NAMESPACE, args.buildkitdNamespace,
                          "default")
           /\ config.val.buildkitdHeadlessSvcName =
                Effective(env.BUILDKITD_HEADLESS_SERVICE_NAME, args.buildkitdHeadlessSvcName,
                          "buildkitd-headless")
           /\ config.val.buildkitdTargetPort =
                Effective(env.BUILDKITD_TARGET_PORT, args.buildkitdTargetPort,
                          defaultBuildkitdTargetPort)
           /\ config.val.kubeconfigPath =
                Effective(env.KUBECONFIG_PATH, args.kubeconfigPath,
                          defaultKubeconfig(env.HOME))
           /\ config.val.scaleDownIdleTimeoutStr = idle
           /\ config.pc = "exit" <=> ParseDuration(idle).err
           /\ config.pc = "loaded" => config.scaleDownIdleTimeout = ParseDuration(idle).d

\* Loaded with every flag given and every environment variable set: the
\* values are those of the environment.
C27_Witness ==
    /\ config.pc = "loaded"
    /\ \A name \in DOMAIN config.args : config.args[name] # NotGiven
    /\ config.env.SCALE_DOWN_IDLE_TIMEOUT = "30s"
    /\ config.scaleDownIdleTimeout = 30
    /\ config.val.proxyListenAddr = ":9090"
    /\ config.val.buildkitdStatefulSetName = "env-sts"
    /\ config.val.buildkitdNamespace = "env-ns"
    /\ config.val.buildkitdHeadlessSvcName = "env-svc"
    /\ config.val.buildkitdTargetPort = "1111"
    /\ config.val.kubeconfigPath = "/env/kubeconfig"

\* C28 as stated: every address dialed is
\* <workloadName>-0.<headlessServiceName>.<namespace>:<port>.
C28_DialTargetWithoutClusterSuffix ==
    \A a \in config.dialed :
        a = config.val.buildkitdStatefulSetName \o "-0."
              \o config.val.buildkitdHeadlessSvcName \o "."
              \o config.val.buildkitdNamespace \o ":"
              \o config.val.buildkitdTargetPort

\* C28, amended: every address dialed is
\* <workloadName>-0.<headlessServiceName>.<namespace>.svc.cluster.local:<port>,
\* of the loaded workload name, headless service name, namespace and port; so
\* all connections dial one and the same address, that of ordinal 0.
C28_DialTargetIsOrdinalZero ==
    \A a \in config.dialed :
        a = config.val.buildkitdStatefulSetName \o "-0."
              \o config.val.buildkitdHeadlessSvcName \o "."
              \o config.val.buildkitdNamespace \o ".svc.cluster.local:"
              \o config.val.buildkitdTargetPort

\* Two connections have dialed, with names from the flags, the namespace from
\* the environment and the default port.
C28_Witness ==
    /\ config.dials = 2
    /\ config.dialed = {"flag-sts-0.flag-svc.env-ns.svc.cluster.local:8372"}

C30_CheckAndDecideUnderMutex ==
    \A t \in Handlers :
        timer[t].st \in {"check", "scale"} =>
            /\ scaleDownTimerMutex
            /\ \A h \in Handlers : conn[h].pc \notin {"cancel", "arm"}

\* C31: the startup status query leads to the ScaleStatefulSet(0) call exactly
\* when it succeeds and reports ready > 0; when it reports ready == 0, whatever
\* desired and current are, or fails, main goes on to net.Listen with
\* spec.replicas untouched; the reconciliation changes spec.replicas only in
\* that call and only to 0, and arms no timer.
C31_ReconcileScalesDownIffReady ==
    /\ [][(mainpc = "reconcile" /\ mainpc' # "reconcile") =>
            LET succeeded == mainpc' # "reconcileWarn"
            IN /\ mainpc' = "reconcileScale" <=>
                     (succeeded /\ StatefulSetStatus(sts).ReadyReplicas > 0)
               /\ (succeeded /\ StatefulSetStatus(sts).ReadyReplicas = 0) => mainpc' = "listen"
               /\ sts' = sts]_vars
    /\ [][(mainpc = "reconcileWarn" /\ mainpc' # "reconcileWarn") =>
            (mainpc' = "listen" /\ sts' = sts)]_vars
    /\ [][(Reconciling /\ sts'.desired # sts.desired) =>
            (mainpc = "reconcileScale" /\ sts'.desired = 0)]_vars
    /\ [][Reconciling => timer' = timer /\ scaleDownTimer' = NoTimer]_vars

\* The status query has reported a ready replica of a StatefulSet that is not
\* scaled down: main is at the ScaleStatefulSet(0) call.
C31_Witness ==
    /\ mainpc = "reconcileScale"
    /\ sts.ready > 0
    /\ sts.desired > 0

\* A handler in its deferred close.
Closing(h) == conn[h].pc \in {"close", "armLock", "arm"}

\* C32: a handler leaves its status query for the scale-up or the dial only
\* with a snapshot, and its scale-up call for the readiness wait only with the
\* patch applied; on an error of either it goes to its deferred close, from
\* where it issues no scale call, waits for no readiness and dials nothing: a
\* closing handler without a snapshot has issued no scale call, and one whose
\* scale-up call was not followed by a readiness wait has not dialed.  (The
\* steps are those of a process that goes on running.)
C32_StatusOrScaleErrorAborts ==
    /\ [][\A h \in Handlers : Alive' =>
            /\ (conn[h].pc = "status" /\ conn'[h].pc \in {"scaleUp", "wait", "dial", "relay"})
                  => conn'[h].ready >= 0
            /\ (conn[h].pc = "status" /\ conn'[h].pc # "status" /\ conn'[h].ready < 0)
                  => conn'[h].pc = "close"
            /\ (conn[h].pc = "scaleUp" /\ conn'[h].pc # "scaleUp")
                  => \/ conn'[h].pc = "wait" /\ sts'.desired = 1
                     \/ conn'[h].pc = "close" /\ sts' = sts
            /\ Closing(h) => conn'[h].pc \in {"close", "armLock", "arm", "done"}]_vars
    /\ [](\A h \in Handlers :
            Closing(h) =>
                /\ conn[h].ready < 0 =>
                      (conn[h].scaleUps = 0 /\ conn[h].waitRes = "none" /\ ~conn[h].dialed)
                /\ (conn[h].scaleUps = 1 /\ conn[h].waitRes = "none") => ~conn[h].dialed)

\* Two handlers are at their deferred close: one after an error of its status
\* query, the other after an error of its ScaleStatefulSet(1) call.
C32_Witness ==
    \E h, g \in Handlers :
        /\ conn[h].pc = "close" /\ conn[h].ready < 0
        /\ conn[g].pc = "close" /\ conn[g].scaleUps = 1 /\ conn[g].waitRes = "none"
        /\ sts.desired = 0

\* A handler whose scale-up failed: it is in its deferred close after a
\* ScaleStatefulSet(1) call that was followed by no successful readiness wait.
ScaleUpFailed(h) ==
    Closing(h) /\ conn[h].scaleUps >= 1 /\ conn[h].waitRes # "ok"

\* C33: no handler issues ScaleStatefulSet(1) twice; the steps of a handler
\* whose scale-up call or readiness wait has failed, that failing step
\* included, leave the StatefulSet as it is; and once main listens
\* spec.replicas is set to 0 only by the callback of a timer, which is armed
\* only by a handler whose decrement returned 0.
C33_NoRetryNoCompensation ==
    /\ [](\A h \in Handlers : conn[h].scaleUps <= 1)
    /\ [][\A h \in Handlers :
            ((ScaleUpFailed(h) \/ conn[h].pc \in {"scaleUp", "wait"})
              /\ conn'[h] # conn[h] /\ conn'[h].pc \in {"close", "armLock", "arm", "done"})
                => (sts' = sts /\ conn'[h].scaleUps <= 1)]_vars
    /\ [][(mainpc = "listening" /\ sts.desired # 0 /\ sts'.desired = 0) =>
            \E t \in Timers : timer[t].st = "scale" /\ timer'[t] = DeadTimer]_vars
    /\ [](\A t \in Timers : timer[t].st # "unused" => conn[t].last)

\* The readiness wait of a handler has failed; the handler is about to arm the
\* timer and the StatefulSet still has the replica it asked for.
C33_Witness ==
    \E h \in Handlers :
        /\ conn[h].pc = "arm"
        /\ conn[h].scaleUps = 1
        /\ conn[h].waitRes = "timeout"
        /\ sts.desired = 1
        /\ activeConnectionCount = 0

\* A handler that is counted: it has incremented the counter and has not yet
\* decremented it.
Counted(h) ==
    conn[h].pc \in {"cancelLock", "cancel", "status", "scaleUp", "wait", "dial", "relay", "close"}

\* C34 as stated: the increments that return 1 and the decrements that return
\* 0 alternate, starting with an increment, and at most one handler whose
\* goroutine runs has isFirstConnection == true.
C34_AtMostOneFirstInFlight ==
    /\ [][\A h \in Handlers : Alive' =>
            /\ (conn[h].pc = "inc" /\ conn'[h].pc # "inc") =>
                  (conn'[h].isFirstConnection <=>
                      (activeConnectionCount = 0 /\ activeConnectionCount' = 1))
            /\ (conn[h].pc = "close" /\ conn'[h].pc # "close") =>
                  (conn'[h].last <=>
                      (activeConnectionCount = 1 /\ activeConnectionCount' = 0))]_vars
    /\ [](Cardinality({h \in InFlight : conn[h].isFirstConnection}) <= 1)

\* C34, amended: an increment returns 1 exactly when it takes the counter from
\* 0 to 1 and a decrement returns 0 exactly when it takes it from 1 to 0, so
\* the two alternate, starting with an increment that returns 1; and at most
\* one counted handler has isFirstConnection == true.
C34_FirstAndLastAlternate ==
    /\ [][\A h \in Handlers : Alive' =>
            /\ (conn[h].pc = "inc" /\ conn'[h].pc # "inc") =>
                  (conn'[h].isFirstConnection <=>
                      (activeConnectionCount = 0 /\ activeConnectionCount' = 1))
            /\ (conn[h].pc = "close" /\ conn'[h].pc # "close") =>
                  (conn'[h].last <=>
                      (activeConnectionCount = 1 /\ activeConnectionCount' = 0))]_vars
    /\ [][Alive' =>
            /\ (activeConnectionCount = 0 /\ activeConnectionCount' > 0) =>
                  \E h \in Handlers : conn[h].pc = "inc" /\ conn'[h].isFirstConnection
            /\ (activeConnectionCount > 0 /\ activeConnectionCount' = 0) =>
                  \E h \in Handlers : conn[h].pc = "close" /\ conn'[h].last]_vars
    /\ [](Cardinality({h \in Handlers : Counted(h) /\ conn[h].isFirstConnection}) <= 1)

\* A first connection whose decrement returned 0 has not armed the timer yet
\* while the next connection, first again, is at its status query.
C34_Witness ==
    \E h, g \in Handlers :
        /\ conn[h].pc = "arm" /\ conn[h].isFirstConnection /\ conn[h].last
        /\ conn[g].pc = "status" /\ conn[g].isFirstConnection
        /\ activeConnectionCount = 1

\* C35: whenever a timer is pending (armed, not stopped, its callback not yet
\* run), scaleDownTimer holds the handle of that timer.
C35_SlotTracksPendingTimer ==
    \A t \in Timers : Pending(t) => scaleDownTimer = t

\* C36: every step that changes spec.replicas sets it to 0 or 1: to 1 only in
\* the scale-up step of a handler that is first and whose status query returned
\* ready == 0, to 0 only in main's startup scale-down or in the scale-down step
\* of a timer callback; a handler issues a scale call only in that scale-up
\* step, and no other step of a handler changes the StatefulSet.
C36_ScaleTargetsAndCallers ==
    /\ [][sts'.desired # sts.desired =>
            /\ sts'.desired \in {0, 1}
            /\ sts'.desired = 1 =>
                  \E h \in Handlers :
                      /\ conn[h].pc = "scaleUp"
                      /\ conn'[h].pc = "wait"
                      /\ conn[h].isFirstConnection
                      /\ conn[h].ready = 0
            /\ sts'.desired = 0 =>
                  \/ mainpc = "reconcileScale" /\ mainpc' = "listen"
                  \/ \E t \in Timers : timer[t].st = "scale" /\ timer'[t] = DeadTimer]_vars
    /\ [][\A h \in Handlers :
            /\ conn'[h].scaleUps > conn[h].scaleUps =>
                  (conn[h].pc = "scaleUp" /\ conn[h].isFirstConnection /\ conn[h].ready = 0)
            /\ (conn'[h] # conn[h] /\ conn[h].pc # "scaleUp") => sts' = sts]_vars

\* The first connection of the run, which read ready == 0, has set
\* spec.replicas to 1 and waits for the readiness of a pod not yet created.
C36_Witness ==
    \E h \in Handlers :
        /\ conn[h].pc = "wait"
        /\ conn[h].isFirstConnection
        /\ conn[h].ready = 0
        /\ sts.desired = 1
        /\ sts.current = 0
        /\ idleScaleDowns = 0
        /\ closes = 0

\* The goroutines inside a critical section of scaleDownTimerMutex: a handler
\* in its cancel or its stop-and-re-arm section, a callback in its clear section.
HandlersInSection == {h \in Handlers : conn[h].pc \in {"cancel", "arm"}}

CallbacksInSection == {t \in Timers : timer[t].st = "locked"}

\* C37: the mutex is held exactly while one goroutine is inside its cancel,
\* stop-and-re-arm or clear section, so never by a goroutine that queries or
\* scales the StatefulSet, dials or relays; the goroutine inside can always
\* finish its section, which releases the mutex; and an increment or a
\* decrement of the counter is never kept waiting, whoever holds the mutex and
\* whatever call is in progress.
C37_MutexOnlyAroundSlot ==
    /\ [](scaleDownTimerMutex <=>
            Cardinality(HandlersInSection) + Cardinality(CallbacksInSection) = 1)
    /\ [](~scaleDownTimerMutex =>
            (HandlersInSection = {} /\ CallbacksInSection = {}))
    /\ [](Alive =>
            /\ \A h \in HandlersInSection : ENABLED (CancelTimer(h) \/ ArmTimer(h))
            /\ \A t \in CallbacksInSection : ENABLED TimerClear(t)
            /\ \A h \in Handlers :
                  /\ conn[h].pc = "inc" => ENABLED Increment(h)
                  /\ conn[h].pc = "close" => ENABLED Decrement(h))
    /\ [][\A h \in Handlers :
            (h \in HandlersInSection /\ conn'[h].pc # conn[h].pc) => ~scaleDownTimerMutex']_vars
    /\ [][\A t \in Timers :
            (t \in CallbacksInSection /\ timer'[t].st # timer[t].st) => ~scaleDownTimerMutex']_vars

\* A callback is at its ScaleStatefulSet(0) call while the handler of the next
\* connection is inside its cancel section.
C37_Witness ==
    \E t \in Timers, h \in Handlers :
        /\ timer[t].st = "scale"
        /\ conn[h].pc = "cancel"
        /\ scaleDownTimerMutex
        /\ activeConnectionCount = 1

\* C38: the scale-down step of a callback, failed or not, changes neither the
\* counter nor the timer slot nor any other timer and ends the callback; and
\* no callback takes it while the count is 0 and an earlier ScaleStatefulSet(0)
\* call of the same idle period has left spec.replicas above 0, that is, has
\* failed with no connection opened and closed since.
C38_FailedScaleDownNotRepeated ==
    [][\A t \in Timers :
          (timer[t].st = "scale" /\ timer'[t].st # "scale" /\ Alive') =>
              /\ activeConnectionCount' = activeConnectionCount
              /\ scaleDownTimer' = scaleDownTimer
              /\ timer' = [timer EXCEPT ![t] = DeadTimer]
              /\ ~(activeConnectionCount = 0 /\ idleScaleDowns >= 1 /\ sts.desired # 0)]_vars

\* A step stops a timer, arms one or changes the timer slot.
TouchesTimer ==
    \/ scaleDownTimer' # scaleDownTimer
    \/ \E t \in Timers : timer[t].st = "armed" /\ timer'[t].st = "dead"
    \/ \E t \in Timers : timer[t].st # "armed" /\ timer'[t].st = "armed"

\* C39: an increment that does not return 1 takes the handler straight to its
\* status query and a decrement that does not return 0 straight to its return,
\* neither touching the timer; only a handler whose increment returned 1 is in
\* the cancel section and only one whose decrement returned 0 in the
\* stop-and-re-arm section; and a step that touches the timer is the end of
\* such a section or the clear section of a callback.
C39_OnlyFirstAndLastTouchTimer ==
    /\ [][\A h \in Handlers : Alive' =>
            /\ (conn[h].pc = "inc" /\ conn'[h].pc # "inc" /\ ~conn'[h].isFirstConnection)
                  => (conn'[h].pc = "status" /\ ~TouchesTimer)
            /\ (conn[h].pc = "close" /\ conn'[h].pc # "close" /\ ~conn'[h].last)
                  => (conn'[h].pc = "done" /\ ~TouchesTimer)]_vars
    /\ [](\A h \in Handlers :
            /\ conn[h].pc \in {"cancelLock", "cancel"} => conn[h].isFirstConnection
            /\ conn[h].pc \in {"armLock", "arm"} => conn[h].last)
    /\ [][(Alive' /\ TouchesTimer) =>
            \/ \E h \in Handlers : conn[h].pc = "cancel" /\ conn'[h].pc = "status"
            \/ \E h \in Handlers : conn[h].pc = "arm" /\ conn'[h].pc = "done"
            \/ \E t \in Timers : timer[t].st = "locked" /\ timer'[t].st = "check"]_vars

\* A connection that was not first relays after another one has closed and
\* left the count at 1: no timer has been armed.
C39_Witness ==
    \E h, g \in Handlers :
        /\ conn[h].pc = "done" /\ ~conn[h].last
        /\ conn[g].pc = "relay" /\ ~conn[g].isFirstConnection
        /\ activeConnectionCount = 1
        /\ scaleDownTimer = NoTimer
        /\ \A t \in Timers : timer[t].st = "unused"

\* C40: a handler returns (shutdownWg.Done) only from a step after which it has
\* closed the client connection once and decremented the counter once and,
\* if its decrement returned 0, has armed its timer; and when the shutdown
\* goroutine exits because shutdownWg.Wait() returned, every accepted handler
\* has returned, every increment has its decrement and activeConnectionCount
\* is 0.
C40_DoneAfterCloseAndDecrement ==
    /\ [][\A h \in Handlers :
            (conn[h].pc # "done" /\ conn'[h].pc = "done") =>
                /\ conn[h].pc \in {"close", "arm"}
                /\ conn'[h].clientCloses = 1
                /\ conn'[h].decs = 1
                /\ conn'[h].last <=> conn[h].pc = "arm"
                /\ conn'[h].last => (timer'[h].st = "armed" /\ scaleDownTimer' = h)]_vars
    /\ [][(shutpc = "waiting" /\ shutpc' = "exitDone") =>
            /\ activeConnectionCount = 0
            /\ opens = closes
            /\ \A h \in Handlers : conn[h].pc \in {"idle", "done"}
            /\ \A h \in Handlers : h <= accepted => conn[h].pc = "done"]_vars

\* The signal has been received and both accepted connections have since
\* finished: shutdownWg.Wait() returns.
C40_Witness ==
    /\ shutpc = "waiting"
    /\ mainpc = "listening"
    /\ accepted = 2
    /\ shutdownWg = 0
    /\ closes = 2
    /\ activeConnectionCount = 0

\* C10: within one idle period (from the close that brings the count to 0 to
\* the next open) timer callbacks call ScaleStatefulSet(0) at most once.
C10_OneScaleDownPerIdlePeriod == idleScaleDowns <= 1
====
